---- MODULE Spec2Model ----
(***************************************************************************)
(* A model of the Belenios election core: the Voting Server's typed state  *)
(* machine (EmptyState, E3, E8, E9, E11, V4), the ballot verification it   *)
(* runs in V4, the Credential Authority, the Server Admin and the voters   *)
(* of the setup, the NIZKs of primitives/zkp.rs, the shared RNG, and the   *)
(* primitives those rest on.                                               *)
(*                                                                         *)
(* The prime-order group is modelled by the additive group of integers     *)
(* modulo Q with generator 1: a Point p stands for p*g.  SHA-256 is        *)
(* modelled by a small polynomial digest over byte sequences.  Strings and *)
(* byte strings are sequences of small integers.                           *)
(***************************************************************************)
EXTENDS Integers, Sequences, FiniteSets, Bags, TLC

-----------------------------------------------------------------------------
(* Bounds of the model *)

\* order of the model group (Ristretto255 in the program)
Q == 5
\* longest voter list / list L fed to the Voting Server
MaxVoters == 2
\* largest voter weight
MaxWeight == 2
\* number of distinct voter passwords in play
NumPasswords == 2
\* longest list of trustee keys in an E9M
MaxTrustees == 2
\* longest finite set of a SetMem instance
MaxSetLen == 2
\* longest slice given to the in-place shuffle of utils.rs
MaxSlice == 3
\* most ballots in one run of arrivals at the Voting Server
MaxArrivals == 2
\* number of threads sharing the RNG
NumThreads == 3
\* number of RNG fills each thread makes
MaxFills == 2

-----------------------------------------------------------------------------
(* Generic helpers *)

RECURSIVE Concat(_)
\* [a, b, c].concat() of a sequence of byte sequences
Concat(ss) == IF ss = <<>> THEN <<>> ELSE Head(ss) \o Concat(Tail(ss))

RECURSIVE SeqSum(_)
SeqSum(s) == IF s = <<>> THEN 0 ELSE Head(s) + SeqSum(Tail(s))

\* all sequences over S of length 0..n
SeqsUpTo(S, n) == UNION {[1..k -> S] : k \in 0..n}

\* the bag (multiset) of the elements of a sequence
RECURSIVE BagOfSeq(_)
BagOfSeq(s) == IF s = <<>> THEN EmptyBag ELSE SetToBag({Head(s)}) (+) BagOfSeq(Tail(s))

\* a call that unwound, and a call that returned v
Panicked == [panic |-> TRUE]
Returned(v) == [panic |-> FALSE, value |-> v]

\* the bytes of an ASCII string, for the strings the model uses
AsBytes(str) ==
    CASE str = "pok"   -> <<112, 111, 107>>
      [] str = "prove" -> <<112, 114, 111, 118, 101>>
      [] str = "dk"    -> <<100, 107>>
      [] str = "sk"    -> <<115, 107>>
      [] str = "dlog"  -> <<100, 108, 111, 103>>
      [] str = "setmem" -> <<115, 101, 116, 109, 101, 109>>
      [] str = "RISTRETTO-25519" -> <<82, 45, 50>>
      [] str = "A" -> <<65>>
      [] str = "B" -> <<66>>
      [] str = "Q1" -> <<81, 49>>
      [] str = "Q2" -> <<81, 50>>
      [] str = "Sample" -> <<83>>

-----------------------------------------------------------------------------
(* primitives/group.rs *)

Scalars == 0..(Q - 1)
Points == 0..(Q - 1)

Point_identity == 0
Point_generator == 1
Point_add(a, b) == (a + b) % Q
Point_neg(a) == (Q - a) % Q
Point_sub(a, b) == Point_add(a, Point_neg(b))
Point_as_bytes(p) == <<p>>

Scalar_zero == 0
Scalar_as_bytes(s) == <<s>>
Scalar_one == 1 % Q
Scalar_from(n) == n % Q
Scalar_add(a, b) == (a + b) % Q
Scalar_neg(a) == (Q - a) % Q
Scalar_sub(a, b) == (a + Q - b) % Q
Scalar_mul(a, b) == (a * b) % Q
\* Scalar * Point and Point * Scalar
Mul(s, p) == (s * p) % Q

RECURSIVE SHA256_update(_, _, _)
SHA256_update(h, data, i) ==
    IF i > Len(data) THEN h
    ELSE SHA256_update((h * 31 + data[i] + 1) % 251, data, i + 1)

\* model digest: a polynomial hash of the bytes, one model byte wide
SHA256(data) == SHA256_update(7, data, 1)

\* digest, then from_bytes_mod_order
hash_to_scalar(data) == SHA256(data) % Q

\* the n-th scalar drawn from an RNG whose outcome is `seed`
sample_uniform(seed, n) == (seed + 3 * n) % Q

-----------------------------------------------------------------------------
(* primitives/pki.rs *)

Ciphertext(alpha, beta) == [alpha |-> alpha, beta |-> beta]

\* ElGamalKeys::from((pass, sep)): private = H(sep || pass), public = private * g
ElGamalKeys_from(pass, sep) ==
    LET private == hash_to_scalar(AsBytes(sep) \o <<pass>>)
    IN  [public |-> Mul(private, Point_generator), private |-> private]

EncryptionKeys_from(pass) == ElGamalKeys_from(pass, "dk")
SigningKeys_from(pass) == ElGamalKeys_from(pass, "sk")

\* the randomness leaked by an encryption that returns the next scalar instead
enc_leak_randomness_nextR(y, m, r) ==
    [ctxt |-> Ciphertext(Mul(r, Point_generator),
                         Point_add(Mul(y, r), Mul(m, Point_generator))),
     r |-> (r + 1) % Q]

\* ElGamal encryption of m under y with randomness r, which is returned too
enc_leak_randomness(y, m, r) ==
    [ctxt |-> Ciphertext(Mul(r, Point_generator),
                         Point_add(Mul(y, r), Mul(m, Point_generator))),
     r |-> r]

-----------------------------------------------------------------------------
(* primitives/zkp.rs: the two proof systems (ProofSystem for DLog and for  *)
(* IntervalMembership), in the form of sections 4.4.1 and 4.4.2.           *)

Proof(c, s) == [challenge |-> c, response |-> s]

\* Prover of 4.4.1: A = k*g, c = H("pok" || P || A), s = k - w*c
DLog_prove(pt, w, k) ==
    LET A == Mul(k, Point_generator)
        c == hash_to_scalar(AsBytes("pok") \o Point_as_bytes(pt) \o Point_as_bytes(A))
    IN  Proof(c, Scalar_sub(k, Scalar_mul(w, c)))

\* Verifier of 4.4.1: A' = s*g + c*P, accept iff H("pok" || P || A') = c
DLog_verify(pt, pf) ==
    LET A == Point_add(Mul(pf.response, Point_generator), Mul(pf.challenge, pt))
    IN  hash_to_scalar(AsBytes("pok") \o Point_as_bytes(pt) \o Point_as_bytes(A))
            = pf.challenge

IntervalMembership(ctxt, y, finite_set, S) ==
    [ctxt |-> ctxt, y |-> y, finite_set |-> finite_set, S |-> S]

\* A_j = s_j*g + c_j*alpha and B_j = s_j*y + c_j*(beta - v_j*g)
IM_commitment(inst, j, pf_j) ==
    <<Point_add(Mul(pf_j.response, Point_generator), Mul(pf_j.challenge, inst.ctxt.alpha)),
      Point_add(Mul(pf_j.response, inst.y),
                Mul(pf_j.challenge,
                    Point_sub(inst.ctxt.beta, Mul(inst.finite_set[j], Point_generator))))>>

\* c_total = H("prove" || S || alpha || beta || A_0 || B_0 || ... )
IM_challenge(inst, coms) ==
    hash_to_scalar(AsBytes("prove") \o inst.S
                   \o Point_as_bytes(inst.ctxt.alpha) \o Point_as_bytes(inst.ctxt.beta)
                   \o Concat([j \in 1..Len(coms) |->
                                Point_as_bytes(coms[j][1]) \o Point_as_bytes(coms[j][2])]))

\* Verifier of 4.4.2: recompute every (A_j, B_j), accept iff sum of c_j = c_total
IntervalMembership_verify(inst, pf) ==
    /\ Len(pf) = Len(inst.finite_set)
    /\ LET coms == [j \in 1..Len(pf) |-> IM_commitment(inst, j, pf[j])]
       IN  SeqSum([j \in 1..Len(pf) |-> pf[j].challenge]) % Q = IM_challenge(inst, coms)

\* Prover of 4.4.2 with witness (r, i), i counted from 1, drawing from RNG `seed`
IntervalMembership_prove(inst, r, i, seed) ==
    LET k     == Len(inst.finite_set)
        sim   == [j \in 1..k |-> Proof(sample_uniform(seed, 2 * j - 1),
                                       sample_uniform(seed, 2 * j))]
        w     == sample_uniform(seed, 2 * k + 1)
        coms  == [j \in 1..k |->
                    IF j = i THEN <<Mul(w, Point_generator), Mul(w, inst.y)>>
                    ELSE IM_commitment(inst, j, sim[j])]
        total == IM_challenge(inst, coms)
        others == SeqSum([j \in 1..k |-> IF j = i THEN 0 ELSE sim[j].challenge])
        c_i   == (total + Q * k - others) % Q
        s_i   == Scalar_sub(w, Scalar_mul(r, c_i))
    IN  [j \in 1..k |-> IF j = i THEN Proof(c_i, s_i) ELSE sim[j]]

-----------------------------------------------------------------------------
(* utils.rs and primitives/zkp.rs as they are in the source tree: the      *)
(* SigmaProtocol implementations DLog and SetMem, and the Fiat-Shamir      *)
(* wrapper `impl NIZK for T: SigmaProtocol`.  A proof is the pair          *)
(* <<commitment, response>>.                                               *)

\* the n-th scalar drawn from an RNG whose outcome is `seed`
random_scalar(seed, n) == (seed + 3 * n) % Q

\* DLog::commitment with the nonce k the RNG gave: (k*G, k)
DLog_commitment(x, w, k) == <<Mul(k, Point_generator), k>>

\* DLog::challenge: H("dlog" || x || com)
DLog_challenge(x, com) ==
    hash_to_scalar(Concat(<<AsBytes("dlog"), Point_as_bytes(x), Point_as_bytes(com)>>))

\* the response with the sign of the other convention: ps - w*c
DLog_response_minus(w, ps, c) == Scalar_sub(ps, Scalar_mul(w, c))

\* DLog::response: ps + w*c
DLog_response(w, ps, c) == Scalar_add(ps, Scalar_mul(w, c))

\* the check with the challenge not negated
DLog_result_plus(x, com, chal, response) ==
    com = Point_add(Mul(response, Point_generator), Mul(chal, x))

\* DLog::result: com == response*G + x*(-chal)
DLog_result(x, com, chal, response) ==
    com = Point_add(Mul(response, Point_generator), Mul(Scalar_neg(chal), x))

\* NIZK::prove for DLog
DLog_NIZK_prove(x, w, k) ==
    LET cp == DLog_commitment(x, w, k)
        com == cp[1]
        ps == cp[2]
        chal == DLog_challenge(x, com)
        resp == DLog_response(w, ps, chal)
    IN  <<com, resp>>

\* NIZK::verify for DLog
DLog_NIZK_verify(x, p) ==
    LET com == p[1]
        resp == p[2]
        chal == DLog_challenge(x, com)
    IN  (resp = p[2]) /\ DLog_result(x, com, chal, resp)

SetMemInstance(h, ctxt, FinSet) == [h |-> h, ctxt |-> ctxt, FinSet |-> FinSet]
\* the index i is counted from 0, as in the program
SetMemWitness(r, i) == [r |-> r, i |-> i]

\* the pair (A_i, B_i) both the prover and the verifier compute from (sigma_i, rho_i)
SetMem_pair(x, i, sigma_i, rho_i) ==
    <<Point_add(Mul(rho_i, Point_generator), Mul(Scalar_neg(sigma_i), x.ctxt.alpha)),
      Point_add(Mul(rho_i, x.h),
                Mul(Scalar_neg(sigma_i),
                    Point_add(x.ctxt.beta,
                              Mul(Scalar_neg(x.FinSet[i]), Point_generator))))>>

\* SetMem::commitment: for each i the RNG gives rho, then sigma; the prover state
\* holds (sigma, rho) with sigma = 0 at wit.i.  Indexing by wit.i out of range panics.
SetMem_commitment(x, wit, seed) ==
    LET N == Len(x.FinSet)
        ps == [i \in 1..N |-> <<IF i = wit.i + 1 THEN Scalar_zero
                                ELSE random_scalar(seed, 2 * i),
                                random_scalar(seed, 2 * i - 1)>>]
        com == [i \in 1..N |-> SetMem_pair(x, i, ps[i][1], ps[i][2])]
    IN  IF wit.i >= N THEN Panicked
        ELSE IF com[wit.i + 1] # <<Mul(ps[wit.i + 1][2], Point_generator),
                                   Mul(ps[wit.i + 1][2], x.h)>> THEN Panicked
        ELSE Returned(<<com, ps>>)

\* SetMem::challenge: H("setmem" || h || alpha || beta || FinSet || A_0 || B_0 || ...)
SetMem_challenge(x, com) ==
    hash_to_scalar(
        AsBytes("setmem") \o Point_as_bytes(x.h)
        \o Point_as_bytes(x.ctxt.alpha) \o Point_as_bytes(x.ctxt.beta)
        \o Concat([i \in 1..Len(x.FinSet) |-> Scalar_as_bytes(x.FinSet[i])])
        \o Concat([i \in 1..Len(com) |->
                     Point_as_bytes(com[i][1]) \o Point_as_bytes(com[i][2])]))

\* the response that takes the whole challenge as sigma of the real branch
SetMem_response_noSubtract(wit, ps, c) ==
    [i \in 1..Len(ps) |->
        IF i = wit.i + 1 THEN <<c, Scalar_add(ps[i][2], Scalar_mul(wit.r, c))>>
        ELSE ps[i]]

\* SetMem::response: sigma = c - sum of the other sigmas, rho = w + r*sigma
SetMem_response(wit, ps, c) ==
    LET N == Len(ps)
        sigma == (c + Q * N
                  - SeqSum([i \in 1..N |-> IF i # wit.i + 1 THEN ps[i][1] ELSE 0])) % Q
        w == ps[wit.i + 1][2]
        rho == Scalar_add(w, Scalar_mul(wit.r, sigma))
    IN  [i \in 1..N |-> IF i = wit.i + 1 THEN <<sigma, rho>> ELSE ps[i]]

\* SetMem::result: every recomputed (A_i, B_i) matches and the sigmas sum to chal
SetMem_result(x, com, chal, response) ==
    /\ \A i \in 1..Len(x.FinSet) :
          com[i] = SetMem_pair(x, i, response[i][1], response[i][2])
    /\ SeqSum([i \in 1..Len(x.FinSet) |-> response[i][1]]) % Q = chal

\* NIZK::prove for SetMem
SetMem_NIZK_prove(x, w, seed) ==
    LET cp == SetMem_commitment(x, w, seed)
    IN  IF cp.panic THEN Panicked
        ELSE LET com == cp.value[1]
                 ps == cp.value[2]
                 chal == SetMem_challenge(x, com)
                 resp == SetMem_response(w, ps, chal)
             IN  Returned(<<com, resp>>)

\* NIZK::verify for SetMem
SetMem_NIZK_verify(x, p) ==
    LET com == p[1]
        resp == p[2]
        chal == SetMem_challenge(x, com)
    IN  (resp = p[2]) /\ SetMem_result(x, com, chal, resp)

-----------------------------------------------------------------------------
(* datatypes: credentials, uuids, questions, election *)

Passwords == 1..NumPasswords

\* the credential public key of (password, uuid): pk = H("dk" || password) * g
ExpandedCredential_public_key(pass, uuid) == EncryptionKeys_from(pass).public

RECURSIVE UUID_from(_)
\* base-58 digits of val, lowest digit first
UUID_from(val) == IF val > 0 THEN <<val % 58>> \o UUID_from(val \div 58) ELSE <<>>

\* UUID::gen: the UUID of the 128-bit value the RNG returned
UUID_gen(rand_num) == UUID_from(rand_num)

Question(text, answers, min, max) ==
    [question |-> text, answers |-> answers, blank |-> FALSE, min |-> min, max |-> max]

\* a string or byte vector, prefixed by its length
SerBytes(b) == <<Len(b)>> \o b

SerQuestion(q) ==
    SerBytes(q.question)
    \o <<Len(q.answers)>> \o Concat([a \in 1..Len(q.answers) |-> SerBytes(q.answers[a])])
    \o <<IF q.blank THEN 1 ELSE 0, q.min, q.max>>

\* bincode::serialize(election): the fields in declaration order
SerElection(e) ==
    <<e.version>> \o SerBytes(e.description) \o SerBytes(e.name) \o SerBytes(e.group)
    \o Point_as_bytes(e.public_key)
    \o <<Len(e.questions)>> \o Concat([q \in 1..Len(e.questions) |-> SerQuestion(e.questions[q])])
    \o SerBytes(e.uuid) \o SerBytes(e.administrator) \o SerBytes(e.credential_authority)

fingerprint(e) == <<SHA256(SerElection(e))>>

\* bincode::serialize(&choices)
SerChoices(choices) ==
    <<Len(choices)>> \o Concat([c \in 1..Len(choices) |->
        Point_as_bytes(choices[c].alpha) \o Point_as_bytes(choices[c].beta)])

-----------------------------------------------------------------------------
(* datatypes/ballot.rs *)

gen_S0(election_hash, cred) == election_hash \o Point_as_bytes(cred)

\* the finite set min..=max as scalars
IntervalSet(min, max) == [j \in 1..(IF max >= min THEN max - min + 1 ELSE 0) |->
                            Scalar_from(min + j - 1)]

Answer_verify(answer, election_hash, cred, pub_key, question) ==
    LET choices == answer.choices
        ind_proofs == answer.individual_proofs
        S0 == gen_S0(election_hash, cred)
        n == Len(choices)
    IN  /\ Len(choices) = Len(ind_proofs)
        /\ \A i \in 1..n :
              IntervalMembership_verify(
                  IntervalMembership(choices[i], pub_key, <<Scalar_zero, Scalar_one>>, S0),
                  ind_proofs[i])
        /\ LET alpha_sum == SeqSum([i \in 1..n |-> choices[i].alpha]) % Q
               beta_sum  == SeqSum([i \in 1..n |-> choices[i].beta]) % Q
               S == S0 \o SerChoices(choices)
           IN  IntervalMembership_verify(
                   IntervalMembership(Ciphertext(alpha_sum, beta_sum), pub_key,
                                      IntervalSet(question.min, question.max), S),
                   answer.overall_proof)

\* Ballot::verify: "true", "false", or "panic" when questions[i] is out of bounds
Ballot_verify(ballot, pub_key, questions) ==
    LET stops == {i \in 1..Len(ballot.answers) :
                    \/ i > Len(questions)
                    \/ ~Answer_verify(ballot.answers[i], ballot.election_hash,
                                      ballot.credential, pub_key, questions[i])}
    IN  IF stops = {} THEN "true"
        ELSE LET i == CHOOSE j \in stops : \A k \in stops : j <= k
             IN  IF i > Len(questions) THEN "panic" ELSE "false"

\* the witness index that forgets the offset question.min
overall_witness_index_noOffset(idx, question) == idx

\* the index of the sum in the set min..=max: (idx - question.min) as usize
overall_witness_index(idx, question) == idx - question.min

\* the encryptions of the choices with the randomness they leak: the first loop
Answer_encs(ms, y, seed) ==
    [i \in 1..Len(ms) |->
        enc_leak_randomness(y, Scalar_from(IF ms[i] THEN 1 ELSE 0),
                            sample_uniform(seed, i))]

\* the loop that sums the randomness, the choices and the ciphertexts, and the
\* witness (R, idx - min) of the overall proof
Answer_aggregate(ms, encs, question) ==
    LET n == Len(ms)
        idx == SeqSum([i \in 1..n |-> IF ms[i] THEN 1 ELSE 0])
    IN  [R |-> SeqSum([i \in 1..n |-> encs[i].r]) % Q,
         idx |-> idx,
         M |-> Scalar_from(idx),
         ctxt |-> Ciphertext(SeqSum([i \in 1..n |-> encs[i].ctxt.alpha]) % Q,
                             SeqSum([i \in 1..n |-> encs[i].ctxt.beta]) % Q),
         i |-> overall_witness_index(idx, question)]

\* impl From<StateNeededForAnswer> for Answer, with the RNG outcome `seed`
Answer_from(ms, question, election, pass, seed) ==
    LET pub_key == ExpandedCredential_public_key(pass, election.uuid)
        y == election.public_key
        n == Len(ms)
        bit(i) == IF ms[i] THEN 1 ELSE 0
        encs == Answer_encs(ms, y, seed)
        ctxts == [i \in 1..n |-> encs[i].ctxt]
        rs == [i \in 1..n |-> encs[i].r]
        S0 == gen_S0(fingerprint(election), pub_key)
        S == S0 \o SerChoices(ctxts)
        individual_pfs == [i \in 1..n |->
            IntervalMembership_prove(
                IntervalMembership(ctxts[i], y, <<Scalar_zero, Scalar_one>>, S0),
                rs[i], bit(i) + 1, seed + i)]
        agg == Answer_aggregate(ms, encs, question)
        overall_proof ==
            IntervalMembership_prove(
                IntervalMembership(agg.ctxt, y,
                                   IntervalSet(question.min, question.max), S),
                agg.R, agg.i + 1, seed + n + 1)
    IN  [choices |-> ctxts, individual_proofs |-> individual_pfs,
         overall_proof |-> overall_proof]

-----------------------------------------------------------------------------
(* participants/voter.rs *)

\* the ballot whose every answer is built from the first choice vector
Voter_V2Mi_firstChoices(election, pass, choices_vec, seed) ==
    [election_uuid |-> election.uuid,
     election_hash |-> fingerprint(election),
     credential |-> ExpandedCredential_public_key(pass, election.uuid),
     answers |-> [i \in 1..Len(election.questions) |->
                    Answer_from(choices_vec[1], election.questions[i], election, pass,
                                seed + i)]]

\* Voter<V1> on V2Mi{choices}: the ballot of the V3Mi it returns
Voter_V2Mi(election, pass, choices_vec, seed) ==
    [election_uuid |-> election.uuid,
     election_hash |-> fingerprint(election),
     credential |-> ExpandedCredential_public_key(pass, election.uuid),
     answers |-> [i \in 1..Len(election.questions) |->
                    Answer_from(choices_vec[i], election.questions[i], election, pass,
                                seed + i)]]

-----------------------------------------------------------------------------
(* participants/messages.rs and lib.rs: messages and check results *)

Ok == [kind |-> "Ok"]
Err(e) == [kind |-> e]
TrusteePKProofFailedError(cheaters) ==
    [kind |-> "TrusteePKProofFailedError", indices |-> cheaters]

EmptyMessage == [type |-> "EmptyMessage"]
E1M(voters) == [type |-> "E1M", voters |-> voters]
E3M_VS_to_CA(uuid) == [type |-> "E3M_VS_to_CA", uuid |-> uuid]
E7M(L) == [type |-> "E7M", L |-> L]
E9M(trustee_keys) == [type |-> "E9M", trustee_keys |-> trustee_keys]
E10M(questions) ==
    [type |-> "E10M", description |-> AsBytes("Sample"), name |-> AsBytes("Sample"),
     version |-> 1, questions |-> questions, administrator |-> AsBytes("A"),
     credential_authority |-> AsBytes("B")]
E11M(election, L) == [type |-> "E11M", election |-> election, L |-> L]
V3Mi(ballot) == [type |-> "V3Mi", vote |-> ballot]
ErrorM(check) == [type |-> "ErrorM", check |-> check]
\* process_message unwound instead of returning
Panic == [type |-> "Panic"]

-----------------------------------------------------------------------------
(* participants/trustee.rs *)

TrusteePublicKey(public_key, proof) == [public_key |-> public_key, proof |-> proof]

\* Trustee<EmptyState> on EmptyMessage: the key of the E9Mi it returns
Trustee_E9Mi(secret, k) ==
    LET keys == SigningKeys_from(secret)
    IN  TrusteePublicKey(keys.public, DLog_prove(keys.public, keys.private, k))

-----------------------------------------------------------------------------
(* participants/voting_server.rs: one operator per process_message impl,   *)
(* from (state, message) to the (state, message) it returns.               *)

Aborted == [stage |-> "Aborted"]
Return(state, message) == [state |-> state, message |-> message]

VS_EmptyState_E1M(s, m, rand_num) ==
    LET uuid == UUID_gen(rand_num)
    IN  Return([stage |-> "E3", voters |-> m.voters, uuid |-> uuid], E3M_VS_to_CA(uuid))

sort_unstable(v) == SortSeq(v, LAMBDA a, b : a < b)

\* the comparison without the two sorts
MultisetCheck_unsorted(voters, L) ==
    IF voters = [i \in 1..Len(L) |-> L[i][2]] THEN Ok ELSE Err("DifferentMultisetError")

\* the comparison of the sorted weight lists
MultisetCheck(voters, L) ==
    LET local_weights == sort_unstable(voters)
        remote_weights == sort_unstable([i \in 1..Len(L) |-> L[i][2]])
    IN  IF local_weights = remote_weights THEN Ok ELSE Err("DifferentMultisetError")

\* the E7M handler that stays in E3 when the check fails
VS_E3_E7M_stay(s, m) ==
    IF MultisetCheck(s.voters, m.L) = Ok
    THEN Return([stage |-> "E8", uuid |-> s.uuid, L |-> m.L], ErrorM(Ok))
    ELSE Return(s, ErrorM(MultisetCheck(s.voters, m.L)))

VS_E3_E7M(s, m) ==
    Return([stage |-> "E8", uuid |-> s.uuid, L |-> m.L],
           ErrorM(MultisetCheck(s.voters, m.L)))

RECURSIVE TrusteeLoop_sumAll(_, _, _, _)
\* the loop that adds every key to trustee_pk, verified or not
TrusteeLoop_sumAll(trustee_keys, i, cheaters, trustee_pk) ==
    IF i > Len(trustee_keys) THEN [cheaters |-> cheaters, trustee_pk |-> trustee_pk]
    ELSE LET pk == trustee_keys[i].public_key
         IN  TrusteeLoop_sumAll(trustee_keys, i + 1,
                                IF ~DLog_verify(pk, trustee_keys[i].proof)
                                THEN Append(cheaters, i - 1) ELSE cheaters,
                                Point_add(trustee_pk, pk))

RECURSIVE TrusteeLoop(_, _, _, _)
\* the loop over trustee_keys from position i (counted from 1) on
TrusteeLoop(trustee_keys, i, cheaters, trustee_pk) ==
    IF i > Len(trustee_keys) THEN [cheaters |-> cheaters, trustee_pk |-> trustee_pk]
    ELSE LET pk == trustee_keys[i].public_key
         IN  IF ~DLog_verify(pk, trustee_keys[i].proof)
             THEN TrusteeLoop(trustee_keys, i + 1, Append(cheaters, i - 1), trustee_pk)
             ELSE TrusteeLoop(trustee_keys, i + 1, cheaters, Point_add(trustee_pk, pk))

\* the handler whose sum of trustee keys starts from the generator
VS_E8_E9M_fromGenerator(s, m) ==
    LET r == TrusteeLoop(m.trustee_keys, 1, <<>>, Point_generator)
    IN  Return([stage |-> "E9", uuid |-> s.uuid, L |-> s.L, trustee_pk |-> r.trustee_pk],
               ErrorM(IF Len(r.cheaters) > 0 THEN TrusteePKProofFailedError(r.cheaters)
                      ELSE Ok))

VS_E8_E9M(s, m) ==
    LET r == TrusteeLoop(m.trustee_keys, 1, <<>>, Point_identity)
    IN  Return([stage |-> "E9", uuid |-> s.uuid, L |-> s.L, trustee_pk |-> r.trustee_pk],
               ErrorM(IF Len(r.cheaters) > 0 THEN TrusteePKProofFailedError(r.cheaters)
                      ELSE Ok))

VS_E9_E10M(s, m) ==
    LET election == [version |-> m.version, description |-> m.description,
                     name |-> m.name, group |-> AsBytes("RISTRETTO-25519"),
                     public_key |-> s.trustee_pk, questions |-> m.questions,
                     uuid |-> s.uuid, administrator |-> m.administrator,
                     credential_authority |-> m.credential_authority]
    IN  Return([stage |-> "E11", election |-> election, L |-> s.L],
               E11M(election, s.L))

VS_E11_EmptyMessage(s, m) ==
    Return([stage |-> "V4", election |-> s.election, L |-> s.L,
            accepted_ballots |-> <<>>],
           EmptyMessage)

\* the weight lookup that never assigns found_wt
FindWeight_defaultWeight(L, cred) ==
    [found |-> \E i \in 1..Len(L) : L[i][1] = cred, found_wt |-> 1]

\* the weight lookup whose `found` starts out true
FindWeight_foundTrue(L, cred) ==
    LET hits == {i \in 1..Len(L) : L[i][1] = cred}
    IN  [found |-> TRUE,
         found_wt |-> IF hits = {} THEN 1
                      ELSE L[CHOOSE i \in hits : \A j \in hits : j <= i][2]]

\* "Find the weight of the ballot": the last pair of L with this credential
FindWeight(L, cred) ==
    LET hits == {i \in 1..Len(L) : L[i][1] = cred}
    IN  [found |-> hits # {},
         found_wt |-> IF hits = {} THEN 1
                      ELSE L[CHOOSE i \in hits : \A j \in hits : j <= i][2]]

\* the scan that looks at the last accepted ballot only
CredentialUsed_lastOnly(accepted_ballots, cred) ==
    /\ accepted_ballots # <<>>
    /\ cred = accepted_ballots[Len(accepted_ballots)][1].credential

\* whether an accepted ballot already carries this credential
CredentialUsed(accepted_ballots, cred) ==
    \E i \in 1..Len(accepted_ballots) : cred = accepted_ballots[i][1].credential

\* the handler that takes the pairs of an accepted credential out of L
VS_V4_V3Mi_dropsL(s, m) ==
    LET ballot == m.vote
        cred == ballot.credential
        w == FindWeight(s.L, cred)
    IN  IF ~w.found THEN Return(s, ErrorM(Err("CredentialNotFoundError")))
        ELSE IF CredentialUsed(s.accepted_ballots, cred)
        THEN Return(s, ErrorM(Err("CredentialUsedTwiceError")))
        ELSE LET v == Ballot_verify(ballot, s.election.public_key, s.election.questions)
             IN  IF v = "panic" THEN Return(Aborted, Panic)
                 ELSE IF v = "false"
                 THEN Return(s, ErrorM(Err("BallotVerificationError")))
                 ELSE Return([stage |-> "V4", election |-> s.election,
                              L |-> SelectSeq(s.L, LAMBDA p : p[1] # cred),
                              accepted_ballots |->
                                  Append(s.accepted_ballots, <<ballot, w.found_wt>>)],
                             ErrorM(Ok))

\* the handler that records a ballot whose verification failed, with weight 0
VS_V4_V3Mi_recordsRejected(s, m) ==
    LET ballot == m.vote
        cred == ballot.credential
        w == FindWeight(s.L, cred)
    IN  IF ~w.found THEN Return(s, ErrorM(Err("CredentialNotFoundError")))
        ELSE IF CredentialUsed(s.accepted_ballots, cred)
        THEN Return(s, ErrorM(Err("CredentialUsedTwiceError")))
        ELSE LET v == Ballot_verify(ballot, s.election.public_key, s.election.questions)
             IN  IF v = "panic" THEN Return(Aborted, Panic)
                 ELSE IF v = "false"
                 THEN Return([s EXCEPT !.accepted_ballots = Append(@, <<ballot, 0>>)],
                             ErrorM(Err("BallotVerificationError")))
                 ELSE Return([stage |-> "V4", election |-> s.election, L |-> s.L,
                              accepted_ballots |->
                                  Append(s.accepted_ballots, <<ballot, w.found_wt>>)],
                             ErrorM(Ok))

\* the handler that verifies the ballot before it looks for a reused credential,
\* and that inserts an accepted ballot at the front
VS_V4_V3Mi_reordered(s, m) ==
    LET ballot == m.vote
        cred == ballot.credential
        w == FindWeight(s.L, cred)
    IN  IF ~w.found THEN Return(s, ErrorM(Err("CredentialNotFoundError")))
        ELSE LET v == Ballot_verify(ballot, s.election.public_key, s.election.questions)
             IN  IF v = "panic" THEN Return(Aborted, Panic)
                 ELSE IF v = "false"
                 THEN Return(s, ErrorM(Err("BallotVerificationError")))
                 ELSE IF CredentialUsed(s.accepted_ballots, cred)
                 THEN Return(s, ErrorM(Err("CredentialUsedTwiceError")))
                 ELSE Return([stage |-> "V4", election |-> s.election, L |-> s.L,
                              accepted_ballots |->
                                  <<<<ballot, w.found_wt>>>> \o s.accepted_ballots],
                             ErrorM(Ok))

VS_V4_V3Mi(s, m) ==
    LET ballot == m.vote
        cred == ballot.credential
        w == FindWeight(s.L, cred)
    IN  IF ~w.found THEN Return(s, ErrorM(Err("CredentialNotFoundError")))
        ELSE IF CredentialUsed(s.accepted_ballots, cred)
        THEN Return(s, ErrorM(Err("CredentialUsedTwiceError")))
        ELSE LET v == Ballot_verify(ballot, s.election.public_key, s.election.questions)
             IN  IF v = "panic" THEN Return(Aborted, Panic)
                 ELSE IF v = "false"
                 THEN Return(s, ErrorM(Err("BallotVerificationError")))
                 ELSE Return([stage |-> "V4", election |-> s.election, L |-> s.L,
                              accepted_ballots |->
                                  Append(s.accepted_ballots, <<ballot, w.found_wt>>)],
                             ErrorM(Ok))

-----------------------------------------------------------------------------
(* participants/server_admin.rs and the E3 messages *)

E3M_SA_to_CA(voters) == [type |-> "E3M_SA_to_CA", voters |-> voters]
E3M(uuid, voters) == [type |-> "E3M", uuid |-> uuid, voters |-> voters]
E4M(passwords) == [type |-> "E4M", passwords |-> passwords]

SA_EmptyState_E1M(s, m) ==
    Return([stage |-> "E2", voters |-> m.voters], E3M_SA_to_CA(m.voters))

\* impl From<(E3M_VS_to_CA, E3M_SA_to_CA)> for E3M
E3M_from(message_VS, message_CA) == E3M(message_VS.uuid, message_CA.voters)

-----------------------------------------------------------------------------
(* participants/voter.rs and messages.rs: the voter's handlers and the      *)
(* passwords sent to the voters                                             *)

E4Mi(password) == [type |-> "E4Mi", password |-> password]
V2Mi(choices) == [type |-> "V2Mi", choices |-> choices]

\* the conversion that gives every voter the first password
E4Mi_from_firstOnly(message) ==
    [i \in 1..Len(message.passwords) |-> E4Mi(message.passwords[1])]

\* impl From<E4M> for Vec<E4Mi>
E4Mi_from(message) ==
    [i \in 1..Len(message.passwords) |-> E4Mi(message.passwords[i])]

Voter_EmptyState_E4Mi(s, message) ==
    Return([stage |-> "E5", pass |-> message.password], EmptyMessage)

Voter_E5_E11M(s, message) ==
    Return([stage |-> "V1", pass |-> s.pass, election |-> message.election], EmptyMessage)

\* Voter<V1> on V2Mi, with the RNG outcome `seed`: the state is returned as it was
Voter_V1_V2Mi(s, message, seed) ==
    Return(s, V3Mi(Voter_V2Mi(s.election, s.pass, message.choices, seed)))

-----------------------------------------------------------------------------
(* participants/credential_authority.rs.  The RNG is modelled by the values *)
(* it returns: rand_val is the 128-bit value of one fill.                   *)

\* the draw that forgets to add the lower end a
rand_range_fromZero(rand_val, a, b) ==
    IF ~(a <= b) THEN Panicked
    ELSE LET zero_centered_range == b - a
         IN  IF zero_centered_range = 0 THEN Panicked
             ELSE Returned(rand_val % zero_centered_range)

\* rand_range(rng, a, b): panics when the assertion or the remainder by zero fails
rand_range(rand_val, a, b) ==
    IF ~(a <= b) THEN Panicked
    ELSE LET zero_centered_range == b - a
         IN  IF zero_centered_range = 0 THEN Panicked
             ELSE Returned(a + (rand_val % zero_centered_range))

\* the swap that copies vec[j] to position i and leaves vec[j] in place
swap_overwrite(vec, i, j) ==
    [k \in 1..Len(vec) |-> IF k = i + 1 THEN vec[j + 1] ELSE vec[k]]

\* vec.swap(i, j), positions counted from 0
swap(vec, i, j) ==
    [k \in 1..Len(vec) |-> IF k = i + 1 THEN vec[j + 1]
                           ELSE IF k = j + 1 THEN vec[i + 1] ELSE vec[k]]

RECURSIVE PermuteLoop(_, _, _)
\* the loop of uniformly_permute from index i on; rands[i + 1] is the value the
\* RNG returns in iteration i
PermuteLoop(vec, i, rands) ==
    LET n == Len(vec)
    IN  IF i >= n - 1 THEN Returned(vec)
        ELSE LET j == rand_range(rands[i + 1], i, n)
             IN  IF j.panic THEN Panicked
                 ELSE PermuteLoop(swap(vec, i, j.value), i + 1, rands)

RECURSIVE PermuteLoop_overwrite(_, _, _)
\* the loop with the overwriting swap
PermuteLoop_overwrite(vec, i, rands) ==
    LET n == Len(vec)
    IN  IF i >= n - 1 THEN Returned(vec)
        ELSE LET j == rand_range(rands[i + 1], i, n)
             IN  IF j.panic THEN Panicked
                 ELSE PermuteLoop_overwrite(swap_overwrite(vec, i, j.value), i + 1, rands)

\* the shuffle built on the overwriting swap
uniformly_permute_overwrite(rands, vec) ==
    IF Len(vec) = 0 THEN Panicked ELSE PermuteLoop_overwrite(vec, 0, rands)

\* uniformly_permute(rng, vec).  For an empty vec, n - 1 overflows: a build with
\* overflow checks panics there, one without runs the loop from i = 0 and panics
\* in rand_range(rng, 0, 0) on the remainder by zero.
uniformly_permute(rands, vec) ==
    IF Len(vec) = 0 THEN Panicked ELSE PermuteLoop(vec, 0, rands)

\* ExpandedCredential::gen(rng, uuid): the password the RNG gave and its public key
ExpandedCredential_gen(pass, uuid) ==
    [password |-> pass, public_key |-> ExpandedCredential_public_key(pass, uuid)]

\* the handler that keeps the credentials c1..cn in the state of step 4
CA_EmptyState_E3M_keepsPasswords(s, message, passes, rands) ==
    LET uuid == message.uuid
        num_voters == Len(message.voters)
        creds == [i \in 1..num_voters |-> ExpandedCredential_gen(passes[i], uuid)]
        passwords == [i \in 1..num_voters |-> creds[i].password]
        L0 == [i \in 1..num_voters |-> <<creds[i].public_key, message.voters[i]>>]
        L == uniformly_permute(rands, L0)
    IN  IF L.panic THEN Return(Aborted, Panic)
        ELSE Return([stage |-> "E4", uuid |-> uuid, L |-> L.value,
                     passwords |-> passwords], E4M(passwords))

\* CredentialAuthority<EmptyState> on E3M; passes are the passwords the RNG gives
\* in the loop, rands the values it gives in the shuffle
CA_EmptyState_E3M(s, message, passes, rands) ==
    LET uuid == message.uuid
        num_voters == Len(message.voters)
        creds == [i \in 1..num_voters |-> ExpandedCredential_gen(passes[i], uuid)]
        passwords == [i \in 1..num_voters |-> creds[i].password]
        L0 == [i \in 1..num_voters |-> <<creds[i].public_key, message.voters[i]>>]
        L == uniformly_permute(rands, L0)
    IN  IF L.panic THEN Return(Aborted, Panic)
        ELSE Return([stage |-> "E4", uuid |-> uuid, L |-> L.value], E4M(passwords))

CA_E4_EmptyMessage(s, m) == Return(s, E7M(s.L))

\* the check that compares the two lists as multisets
CA_E4_E11M_multiset(s, m) ==
    Return([stage |-> "E12", election |-> m.election, L |-> s.L],
           ErrorM(IF BagOfSeq(m.L) # BagOfSeq(s.L) THEN Err("DisagreementOverLError")
                  ELSE Ok))

CA_E4_E11M(s, m) ==
    LET election == m.election
        check == IF m.L # s.L THEN Err("DisagreementOverLError") ELSE Ok
    IN  Return([stage |-> "E12", election |-> election, L |-> s.L], ErrorM(check))

-----------------------------------------------------------------------------
(* The messages the Voting Server is fed *)

\* E1M: the voter weights of the election specification
VoterLists == SeqsUpTo(1..MaxWeight, MaxVoters)

\* the 128-bit values UUID::gen may draw
UUIDRands == {59, 60}

\* E7M: any list of (credential public key, weight) pairs
LLists ==
    SeqsUpTo({ExpandedCredential_public_key(p, <<>>) : p \in Passwords} \X (1..MaxWeight),
             MaxVoters)

\* a trustee whose proof is computed over a different scalar
CheatingTrustee(secret, k) ==
    LET keys == SigningKeys_from(secret)
    IN  TrusteePublicKey(keys.public,
                         DLog_prove(keys.public, Scalar_add(keys.private, 1), k))

\* E9M: honest and cheating trustee keys
TrusteeKeyLists == SeqsUpTo({Trustee_E9Mi(2, 1), CheatingTrustee(3, 1)}, MaxTrustees)

\* E9M: longer lists over more keys, for the contract of the E9M handler
WideTrusteeKeyLists ==
    SeqsUpTo({Trustee_E9Mi(2, 1), Trustee_E9Mi(3, 2),
              CheatingTrustee(2, 1), CheatingTrustee(3, 1)}, MaxTrustees + 1)

\* lists of pairs longer than any L of a run, for the contract of the shuffle
ShuffleInputs ==
    SeqsUpTo({ExpandedCredential_public_key(p, <<>>) : p \in Passwords} \X (1..MaxWeight),
             MaxVoters + 1) \ {<<>>}

\* E10M: the questions of the election
QuestionLists ==
    LET q1 == Question(AsBytes("Q1"), <<AsBytes("A"), AsBytes("B")>>, 0, 1)
        q2 == Question(AsBytes("Q2"), <<AsBytes("A"), AsBytes("B")>>, 1, 1)
    IN  {<<q1>>, <<q1, q2>>}

\* V2Mi: one choice vector per question
ChoiceInputs(n) == {[i \in 1..n |-> c] : c \in {<<TRUE, FALSE>>, <<FALSE, TRUE>>}}

\* V2Mi: a single choice for every question, whatever its number of answers
ShortChoices(n) == [i \in 1..n |-> <<TRUE>>]

TamperKinds == {"individual", "overall", "length", "extra", "extra_length", "fewer"}

\* a ballot changed after the voter built it (it has at least one answer)
Tamper(kind, b) ==
    LET n == Len(b.answers)
        a1 == b.answers[1]
        bump(pf) == [pf EXCEPT !.challenge = (@ + 1) % Q]
    IN  CASE kind = "individual" ->
               [b EXCEPT !.answers[1].individual_proofs[1][1] = bump(@)]
          [] kind = "overall" ->
               [b EXCEPT !.answers[n].overall_proof[1] = bump(@)]
          [] kind = "length" ->
               [b EXCEPT !.answers[1].individual_proofs =
                             SubSeq(@, 1, Len(@) - 1)]
          [] kind = "extra" -> [b EXCEPT !.answers = Append(@, a1)]
          [] kind = "extra_length" ->
               [b EXCEPT !.answers =
                   Append(@, [a1 EXCEPT !.individual_proofs = SubSeq(@, 1, Len(@) - 1)])]
          [] kind = "fewer" -> [b EXCEPT !.answers = SubSeq(@, 1, n - 1)]

\* the ballots voters build for this election, and tampered ones
BallotsFor(election) ==
    LET n == Len(election.questions)
        \* another Election with the same uuid, public key and questions
        sibling == [election EXCEPT !.description = @ \o <<50>>]
    IN  {Voter_V2Mi(election, p, ch, 1) : p \in Passwords, ch \in ChoiceInputs(n)}
        \cup {Voter_V2Mi(election, 1, ShortChoices(n), 1)}
        \cup {Voter_V2Mi(sibling, 1, [i \in 1..n |-> <<TRUE, FALSE>>], 1)}
        \cup {Tamper(k, Voter_V2Mi(election, p, [i \in 1..n |-> <<TRUE, FALSE>>], 1)) :
                 p \in Passwords, k \in TamperKinds}

\* the elections the Voting Server can come to hold
Elections ==
    {VS_E9_E10M([stage |-> "E9", uuid |-> UUID_gen(u), L |-> <<>>, trustee_pk |-> pk],
                E10M(qs)).state.election :
        u \in UUIDRands, pk \in Points, qs \in QuestionLists}

\* the outcomes of the voter's RNG
Seeds == {1, 2}

\* V2Mi: for every question one boolean per choice, their sum within min..max
ValidChoices(questions) ==
    {ch \in [1..Len(questions) -> [1..2 -> BOOLEAN]] :
        \A q \in 1..Len(questions) :
            LET sum == SeqSum([c \in 1..Len(ch[q]) |-> IF ch[q][c] THEN 1 ELSE 0])
            IN  /\ Len(ch[q]) = Len(questions[q].answers)
                /\ questions[q].min <= sum /\ sum <= questions[q].max}

\* the ballots voters build from valid choices, for each election
VoterBallots ==
    [e \in Elections |->
        {Voter_V2Mi(e, p, ch, seed) :
            p \in Passwords, ch \in ValidChoices(e.questions), seed \in Seeds}]

\* V3Mi: the ballots submitted to the server of each election
SubmittedBallots == [e \in Elections |-> BallotsFor(e)]

-----------------------------------------------------------------------------
(* The Voting Server as a state machine *)

\* the threads that hold a clone of the Arc<Mutex<dyn SecureRandom>>
Threads == 1..NumThreads

VARIABLES
    vs,        \* VotingServer<S>.state, with the stage S it is in
    out,       \* the message the last process_message returned
    e7_reply,  \* the check the server returned for E7M ("none" before)
    sa,        \* ServerAdmin<S>.state
    sa_out,    \* the message the Server Admin returned last
    ca,        \* CredentialAuthority<S>.state
    ca_out,    \* the message the Credential Authority returned last
    electorate, \* the Voter<S>.state of every voter of the run, in order
    cast,      \* the last V2Mi a voter processed, its index (0: none) and the reply
    zk,        \* the instance, witness and proof of the NIZK run under way
    rng,       \* the shared Arc<Mutex<dyn SecureRandom>> and the threads using it
    call       \* the call of a function of utils.rs or base58.rs under way

vars == <<vs, out, e7_reply, sa, sa_out, ca, ca_out, electorate, cast, zk, rng, call>>
\* what the Voting Server's handlers leave alone
others == <<sa, sa_out, ca, ca_out, electorate, cast, zk, rng, call>>
\* what the Credential Authority's handlers leave alone
notCA == <<vs, out, e7_reply, sa, sa_out, electorate, cast, zk, rng, call>>
\* what a NIZK run leaves alone
notZK == <<vs, out, e7_reply, sa, sa_out, ca, ca_out, electorate, cast, rng, call>>
\* what an access to the RNG leaves alone
notRNG == <<vs, out, e7_reply, sa, sa_out, ca, ca_out, electorate, cast, zk, call>>
\* what a call of a library function leaves alone
notCall == <<vs, out, e7_reply, sa, sa_out, ca, ca_out, electorate, cast, zk, rng>>

\* VotingServer::new
Init ==
    /\ vs = [stage |-> "EmptyState"]
    /\ out = [type |-> "none"]
    /\ e7_reply = "none"
    /\ sa = [stage |-> "EmptyState"]
    /\ sa_out = [type |-> "none"]
    /\ ca = [stage |-> "EmptyState"]
    /\ ca_out = [type |-> "none"]
    /\ electorate = <<>>
    /\ cast = [by |-> 0]
    /\ zk = [phase |-> "idle"]
    /\ rng = [holder |-> 0, poisoned |-> FALSE,
              threads |-> [t \in Threads |-> [pc |-> "idle", fills |-> 0]]]
    /\ call = [fn |-> "none"]

ProcessE1M ==
    /\ vs.stage = "EmptyState"
    /\ \E voters \in VoterLists, rand_num \in UUIDRands :
          LET r == VS_EmptyState_E1M(vs, E1M(voters), rand_num)
          IN  vs' = r.state /\ out' = r.message
    /\ UNCHANGED <<e7_reply, others>>

ProcessE7M ==
    /\ vs.stage = "E3"
    /\ \E L \in LLists :
          LET r == VS_E3_E7M(vs, E7M(L))
          IN  vs' = r.state /\ out' = r.message /\ e7_reply' = r.message.check.kind
    /\ UNCHANGED others

ProcessE9M ==
    /\ vs.stage = "E8"
    /\ \E keys \in TrusteeKeyLists :
          LET r == VS_E8_E9M(vs, E9M(keys))
          IN  vs' = r.state /\ out' = r.message
    /\ UNCHANGED <<e7_reply, others>>

ProcessE10M ==
    /\ vs.stage = "E9"
    /\ \E qs \in QuestionLists :
          LET r == VS_E9_E10M(vs, E10M(qs))
          IN  vs' = r.state /\ out' = r.message
    /\ UNCHANGED <<e7_reply, others>>

ProcessEmptyMessage ==
    /\ vs.stage = "E11"
    /\ LET r == VS_E11_EmptyMessage(vs, EmptyMessage)
       IN  vs' = r.state /\ out' = r.message
    /\ UNCHANGED <<e7_reply, others>>

ProcessV3Mi ==
    /\ vs.stage = "V4"
    /\ \E b \in SubmittedBallots[vs.election] :
          LET r == VS_V4_V3Mi(vs, V3Mi(b))
          IN  vs' = r.state /\ out' = r.message
    /\ UNCHANGED <<e7_reply, others>>

Next ==
    \/ ProcessE1M
    \/ ProcessE7M
    \/ ProcessE9M
    \/ ProcessE10M
    \/ ProcessEmptyMessage
    \/ ProcessV3Mi

Spec == Init /\ [][Next]_vars

-----------------------------------------------------------------------------
(* The Credential Authority as a state machine, fed any messages *)

\* the values one RNG fill is reduced from in the shuffle
RandVals == 0..MaxVoters

\* E11M: elections the Voting Server may send
E11MElections ==
    {e \in Elections : e.public_key = Point_generator /\ e.uuid = UUID_gen(59)}

CAProcessE3M ==
    /\ ca.stage = "EmptyState"
    /\ \E voters \in VoterLists, u \in UUIDRands :
          \E passes \in [1..Len(voters) -> Passwords],
             rands \in [1..(Len(voters) - 1) -> RandVals] :
              LET r == CA_EmptyState_E3M(ca, E3M(UUID_gen(u), voters), passes, rands)
              IN  ca' = r.state /\ ca_out' = r.message
    /\ UNCHANGED notCA

CAProcessEmptyMessage ==
    /\ ca.stage = "E4"
    /\ LET r == CA_E4_EmptyMessage(ca, EmptyMessage)
       IN  ca' = r.state /\ ca_out' = r.message
    /\ UNCHANGED notCA

CAProcessE11M ==
    /\ ca.stage = "E4"
    /\ \E L \in LLists, e \in E11MElections :
          LET r == CA_E4_E11M(ca, E11M(e, L))
          IN  ca' = r.state /\ ca_out' = r.message
    /\ UNCHANGED notCA

CANext ==
    \/ CAProcessE3M
    \/ CAProcessEmptyMessage
    \/ CAProcessE11M

CASpec == Init /\ [][CANext]_vars

-----------------------------------------------------------------------------
(* The setup run of main.rs: every participant follows the protocol and     *)
(* every message is relayed as it was returned.                             *)

\* the keys honest trustees return
HonestTrusteeKeyLists == SeqsUpTo({Trustee_E9Mi(2, 1), Trustee_E9Mi(3, 2)}, MaxTrustees)

\* the same E1M, with at least one voter, goes to the Server Admin and the Voting Server
RelayE1M ==
    /\ sa.stage = "EmptyState" /\ vs.stage = "EmptyState"
    /\ \E voters \in VoterLists \ {<<>>}, rand_num \in UUIDRands :
          LET r1 == SA_EmptyState_E1M(sa, E1M(voters))
              r2 == VS_EmptyState_E1M(vs, E1M(voters), rand_num)
          IN  /\ sa' = r1.state /\ sa_out' = r1.message
              /\ vs' = r2.state /\ out' = r2.message
    /\ UNCHANGED <<e7_reply, ca, ca_out, electorate, cast, zk, rng, call>>

\* the two E3 messages, combined, go to the Credential Authority
RelayE3M ==
    /\ ca.stage = "EmptyState" /\ out.type = "E3M_VS_to_CA"
    /\ sa_out.type = "E3M_SA_to_CA"
    /\ LET m == E3M_from(out, sa_out)
       IN  \E passes \in [1..Len(m.voters) -> Passwords],
              rands \in [1..(Len(m.voters) - 1) -> RandVals] :
               LET r == CA_EmptyState_E3M(ca, m, passes, rands)
               IN  ca' = r.state /\ ca_out' = r.message
    /\ UNCHANGED notCA

\* every voter is created and given the password of its index
RelayE4Mi ==
    /\ ca_out.type = "E4M" /\ electorate = <<>>
    /\ LET message_to_voters == E4Mi_from(ca_out)
       IN  electorate' = [i \in 1..Len(sa.voters) |->
                            Voter_EmptyState_E4Mi([stage |-> "EmptyState"],
                                                  message_to_voters[i]).state]
    /\ UNCHANGED <<vs, out, e7_reply, sa, sa_out, ca, ca_out, cast, zk, rng, call>>

\* the Credential Authority is asked for the list L, once the voters are set up
RelayEmptyMessage ==
    /\ ca.stage = "E4" /\ ca_out.type = "E4M" /\ electorate # <<>>
    /\ LET r == CA_E4_EmptyMessage(ca, EmptyMessage)
       IN  ca' = r.state /\ ca_out' = r.message
    /\ UNCHANGED notCA

\* its E7M goes to the Voting Server
RelayE7M ==
    /\ vs.stage = "E3" /\ ca_out.type = "E7M"
    /\ LET r == VS_E3_E7M(vs, ca_out)
       IN  vs' = r.state /\ out' = r.message /\ e7_reply' = r.message.check.kind
    /\ UNCHANGED others

\* the trustees' keys go to the Voting Server
RelayE9M ==
    /\ vs.stage = "E8"
    /\ \E keys \in HonestTrusteeKeyLists :
          LET r == VS_E8_E9M(vs, E9M(keys))
          IN  vs' = r.state /\ out' = r.message
    /\ UNCHANGED <<e7_reply, others>>

\* the Voting Server's E11M goes to the Credential Authority
RelayE11M ==
    /\ ca.stage = "E4" /\ out.type = "E11M"
    /\ LET r == CA_E4_E11M(ca, out)
       IN  ca' = r.state /\ ca_out' = r.message
    /\ UNCHANGED notCA

\* the E11M goes to every voter, after the Credential Authority's check passed
RelayElection ==
    /\ ca.stage = "E12" /\ ca_out = ErrorM(Ok) /\ out.type = "E11M"
    /\ \A i \in 1..Len(electorate) : electorate[i].stage = "E5"
    /\ electorate' = [i \in 1..Len(electorate) |-> Voter_E5_E11M(electorate[i], out).state]
    /\ UNCHANGED <<vs, out, e7_reply, sa, sa_out, ca, ca_out, cast, zk, rng, call>>

\* a voter casts: it is given choices within the bounds of every question.  The
\* run is followed up to its first cast: casting returns the voter's state as it
\* was, so any later cast starts from a state a first cast starts from.
VoterCast ==
    /\ cast.by = 0
    /\ \E i \in 1..Len(electorate) :
          /\ electorate[i].stage = "V1"
          /\ \E ch \in ValidChoices(electorate[i].election.questions), seed \in Seeds :
                LET r == Voter_V1_V2Mi(electorate[i], V2Mi(ch), seed)
                IN  /\ electorate' = [electorate EXCEPT ![i] = r.state]
                    /\ cast' = [by |-> i, request |-> V2Mi(ch), seed |-> seed,
                             reply |-> r.message]
    /\ UNCHANGED <<vs, out, e7_reply, sa, sa_out, ca, ca_out, zk, rng, call>>

SetupNext ==
    \/ RelayE1M
    \/ RelayE3M
    \/ RelayE4Mi
    \/ RelayEmptyMessage
    \/ RelayE7M
    \/ RelayE9M
    \/ ProcessE10M
    \/ RelayE11M
    \/ RelayElection
    \/ VoterCast

SetupSpec == Init /\ [][SetupNext]_vars

-----------------------------------------------------------------------------
(* Properties of the Voting Server in V4 *)

InL(L, cred) == \E i \in 1..Len(L) : L[i][1] = cred
Unused(accepted_ballots, cred) ==
    \A i \in 1..Len(accepted_ballots) : accepted_ballots[i][1].credential # cred
Verifies(s, b) == Ballot_verify(b, s.election.public_key, s.election.questions) = "true"
Reply(s, b) == VS_V4_V3Mi(s, V3Mi(b))

\* C1: in V4, a ballot whose credential is in L and unused and whose proofs verify
\* gets Ok, and accepted_ballots becomes the old list with the one entry (ballot, w)
\* appended at the end, (ballot.credential, w) being a pair of L.
C1_AcceptAppends ==
    vs.stage = "V4" =>
        \A b \in SubmittedBallots[vs.election] :
            (InL(vs.L, b.credential) /\ Unused(vs.accepted_ballots, b.credential)
                /\ Verifies(vs, b))
            => /\ Reply(vs, b).message = ErrorM(Ok)
               /\ \E i \in 1..Len(vs.L) :
                     /\ vs.L[i][1] = b.credential
                     /\ Reply(vs, b).state.accepted_ballots
                            = Append(vs.accepted_ballots, <<b, vs.L[i][2]>>)

\* a second ballot was accepted, with a weight other than the default 1, after another
C1_Witness ==
    /\ vs.stage = "V4" /\ out = ErrorM(Ok)
    /\ Len(vs.accepted_ballots) = 2
    /\ vs.accepted_ballots[2][2] = 2

\* C2: in V4, a ballot whose credential is in L and is that of an accepted ballot gets
\* CredentialUsedTwiceError, and election, L and accepted_ballots stay as they were.
C2_ReusedCredential ==
    vs.stage = "V4" =>
        \A b \in SubmittedBallots[vs.election] :
            (InL(vs.L, b.credential) /\ ~Unused(vs.accepted_ballots, b.credential))
            => /\ Reply(vs, b).message = ErrorM(Err("CredentialUsedTwiceError"))
               /\ Reply(vs, b).state = vs

\* a reuse was rejected where both an exact replay and a different ballot under the
\* same credential, with failing proofs too, could be submitted
C2_Witness ==
    /\ vs.stage = "V4" /\ out = ErrorM(Err("CredentialUsedTwiceError"))
    /\ Len(vs.accepted_ballots) = 1
    /\ \E b \in SubmittedBallots[vs.election] :
          /\ b # vs.accepted_ballots[1][1]
          /\ b.credential = vs.accepted_ballots[1][1].credential
          /\ ~Verifies(vs, b)

\* C3: in V4, a ballot whose credential is in no pair of L gets CredentialNotFoundError
\* and the state stays as it was, whether or not its proofs verify.
C3_UnknownCredential ==
    vs.stage = "V4" =>
        \A b \in SubmittedBallots[vs.election] :
            ~InL(vs.L, b.credential)
            => /\ Reply(vs, b).message = ErrorM(Err("CredentialNotFoundError"))
               /\ Reply(vs, b).state = vs

\* an unknown credential was rejected where ballots under it with verifying and with
\* failing proofs could be submitted, after another ballot had been accepted
C3_Witness ==
    /\ vs.stage = "V4" /\ out = ErrorM(Err("CredentialNotFoundError"))
    /\ Len(vs.accepted_ballots) = 1
    /\ \E b1, b2 \in SubmittedBallots[vs.election] :
          /\ b1.credential = b2.credential /\ ~InL(vs.L, b1.credential)
          /\ Verifies(vs, b1) /\ ~Verifies(vs, b2)

\* some answer of b has a failing proof, or a number of individual proofs other
\* than its number of choices
SomeAnswerFails(s, b) ==
    \E i \in 1..Len(b.answers) :
        \/ Len(b.answers[i].choices) # Len(b.answers[i].individual_proofs)
        \/ /\ i <= Len(s.election.questions)
           /\ ~Answer_verify(b.answers[i], b.election_hash, b.credential,
                             s.election.public_key, s.election.questions[i])

\* C4: in V4, a ballot whose credential is in L and unused, and some answer of which
\* has a failing proof or len(choices) # len(individual_proofs), gets
\* BallotVerificationError and accepted_ballots stays as it was.
C4_FailedVerification ==
    vs.stage = "V4" =>
        \A b \in SubmittedBallots[vs.election] :
            (InL(vs.L, b.credential) /\ Unused(vs.accepted_ballots, b.credential)
                /\ SomeAnswerFails(vs, b))
            => /\ Reply(vs, b).message = ErrorM(Err("BallotVerificationError"))
               /\ Reply(vs, b).state.stage = "V4"
               /\ Reply(vs, b).state.accepted_ballots = vs.accepted_ballots

\* C5: no two entries of accepted_ballots carry the same credential.
C5_DistinctCredentials ==
    vs.stage = "V4" =>
        \A i, j \in 1..Len(vs.accepted_ballots) :
            i # j => vs.accepted_ballots[i][1].credential
                        # vs.accepted_ballots[j][1].credential

\* two ballots are accepted and a further one under a used credential was rejected
C5_Witness ==
    /\ vs.stage = "V4" /\ Len(vs.accepted_ballots) = 2
    /\ out = ErrorM(Err("CredentialUsedTwiceError"))

\* C6: every entry (ballot, w) of accepted_ballots has (ballot.credential, w) in L.
C6_WeightFromL ==
    vs.stage = "V4" =>
        \A i \in 1..Len(vs.accepted_ballots) :
            \E k \in 1..Len(vs.L) :
                vs.L[k] = <<vs.accepted_ballots[i][1].credential, vs.accepted_ballots[i][2]>>

\* a ballot was accepted with weight 2 although L pairs its credential with 1 too
C6_Witness ==
    /\ vs.stage = "V4" /\ Len(vs.accepted_ballots) = 1
    /\ vs.accepted_ballots[1][2] = 2
    /\ vs.L = <<<<vs.accepted_ballots[1][1].credential, 1>>,
                <<vs.accepted_ballots[1][1].credential, 2>>>>

\* C7: the ballot entry always returns one of Ok, CredentialNotFoundError,
\* CredentialUsedTwiceError, BallotVerificationError and the server stays in V4;
\* it never aborts.
C7_AlwaysReturns ==
    /\ vs.stage # "Aborted"
    /\ out.type # "Panic"

\* C8: every accepted ballot has one answer per question of the election, answer i
\* verifying against question i.
C8_OneAnswerPerQuestion ==
    vs.stage = "V4" =>
        \A i \in 1..Len(vs.accepted_ballots) :
            LET b == vs.accepted_ballots[i][1]
            IN  /\ Len(b.answers) = Len(vs.election.questions)
                /\ \A q \in 1..Len(b.answers) :
                      Answer_verify(b.answers[q], b.election_hash, b.credential,
                                    vs.election.public_key, vs.election.questions[q])

-----------------------------------------------------------------------------
(* Properties of the setup *)

\* C9: the check on E7M is Ok iff the multiset of the weights of E1M equals the
\* multiset of the weights in L, and DifferentMultisetError otherwise.
C9_MultisetCheck ==
    vs.stage = "E3" =>
        \A L \in LLists :
            LET check == VS_E3_E7M(vs, E7M(L)).message.check
                same == BagOfSeq(vs.voters) = BagOfSeq([i \in 1..Len(L) |-> L[i][2]])
            IN  /\ same => check = Ok
                /\ ~same => check = Err("DifferentMultisetError")

\* the check failed on an L as long as the voter list could be
C9_Witness ==
    /\ vs.stage = "E8" /\ out = ErrorM(Err("DifferentMultisetError"))
    /\ Len(vs.L) = MaxVoters

\* C10: once the check on E7M has returned DifferentMultisetError, the server never
\* emits an E11M and never accepts a ballot.
C10_FailedCheckHalts ==
    e7_reply = "DifferentMultisetError" =>
        /\ out.type # "E11M"
        /\ ~(vs.stage = "V4" /\ vs.accepted_ballots # <<>>)

\* C11: on E9M the key the server stores, and then puts in the Election (its state's
\* and the E11M's) as public_key, is the sum of the keys whose proof verifies; the
\* reply is TrusteePKProofFailedError with the failing positions in ascending order
\* when some proof fails, and Ok when none does.
C11_TrusteeKeySum ==
    vs.stage = "E8" =>
        \A keys \in WideTrusteeKeyLists, qs \in QuestionLists :
            LET r == VS_E8_E9M(vs, E9M(keys))
                e == VS_E9_E10M(r.state, E10M(qs))
                bad == {i \in 1..Len(keys) : ~DLog_verify(keys[i].public_key, keys[i].proof)}
                sum == SeqSum([i \in 1..Len(keys) |->
                                 IF i \in bad THEN 0 ELSE keys[i].public_key]) % Q
                check == r.message.check
            IN  /\ r.state.trustee_pk = sum
                /\ e.state.election.public_key = sum
                /\ e.message.election.public_key = sum
                /\ bad = {} => check = Ok
                /\ bad # {} =>
                      /\ check.kind = "TrusteePKProofFailedError"
                      /\ Len(check.indices) = Cardinality(bad)
                      /\ {check.indices[a] : a \in 1..Len(check.indices)}
                             = {i - 1 : i \in bad}
                      /\ \A a, b \in 1..Len(check.indices) :
                             a < b => check.indices[a] < check.indices[b]

\* the first of two keys failed and the second, not the identity, was stored
C11_Witness ==
    /\ vs.stage = "E9"
    /\ out = ErrorM(TrusteePKProofFailedError(<<0>>))
    /\ vs.trustee_pk # Point_identity

-----------------------------------------------------------------------------
(* Properties of the Credential Authority *)

\* C12: on E11M the Credential Authority returns DisagreementOverLError iff the
\* message's L differs from its own L as a sequence of pairs, Ok otherwise, and in
\* both cases moves to E12 keeping its own L.
C12_DisagreementOverL ==
    ca.stage = "E4" =>
        \A L \in LLists, e \in E11MElections :
            LET r == CA_E4_E11M(ca, E11M(e, L))
                differs == \/ Len(L) # Len(ca.L)
                           \/ \E i \in 1..Len(L) : L[i] # ca.L[i]
            IN  /\ differs => r.message = ErrorM(Err("DisagreementOverLError"))
                /\ ~differs => r.message = ErrorM(Ok)
                /\ r.state.stage = "E12"
                /\ r.state.L = ca.L

\* the check failed in a state whose L has two different pairs, so that the same
\* pairs in the other order were among the lists it could be sent
C12_Witness ==
    /\ ca.stage = "E12" /\ ca_out = ErrorM(Err("DisagreementOverLError"))
    /\ Len(ca.L) = 2 /\ ca.L[1] # ca.L[2]

\* C13: on an E3M with n >= 1 weights the Credential Authority returns n passwords
\* and holds an L of n pairs whose weights are, as a multiset, those of the E3M.
C13_CredentialsPerVoter ==
    ca.stage = "EmptyState" =>
        \A voters \in VoterLists \ {<<>>}, u \in UUIDRands :
            \A passes \in [1..Len(voters) -> Passwords],
               rands \in [1..(Len(voters) - 1) -> RandVals] :
                LET r == CA_EmptyState_E3M(ca, E3M(UUID_gen(u), voters), passes, rands)
                IN  /\ r.state.stage = "E4"
                    /\ r.message.type = "E4M"
                    /\ Len(r.message.passwords) = Len(voters)
                    /\ Len(r.state.L) = Len(voters)
                    /\ BagOfSeq([i \in 1..Len(r.state.L) |-> r.state.L[i][2]])
                           = BagOfSeq(voters)

\* the Credential Authority holds an L of MaxVoters pairs with different weights
C13_Witness ==
    /\ ca.stage = "E4" /\ ca_out.type = "E4M"
    /\ Len(ca.L) = MaxVoters /\ Len(ca_out.passwords) = MaxVoters
    /\ ca.L[1][2] # ca.L[2][2]

\* C14: for every input of length n >= 1 and every outcome of the RNG the shuffle
\* returns a permutation of its input: the same multiset of (public key, weight)
\* pairs.
C14_ShufflePermutes ==
    ca.stage = "EmptyState" =>
        \A vec \in ShuffleInputs :
            \A rands \in [1..(Len(vec) - 1) -> RandVals] :
                LET r == uniformly_permute(rands, vec)
                IN  /\ ~r.panic
                    /\ Len(r.value) = Len(vec)
                    /\ BagOfSeq(r.value) = BagOfSeq(vec)

\* the shuffle moved the pair of the first voter away from the first place
C14_Witness ==
    /\ ca.stage = "E4" /\ ca_out.type = "E4M" /\ Len(ca.L) = 2
    /\ ca.L[1][1] # ca.L[2][1]
    /\ ca.L[2][1] = ExpandedCredential_public_key(ca_out.passwords[1], ca.uuid)

\* C17: in the setup run the Voting Server's multiset check returns Ok and the
\* Credential Authority's check of L returns Ok.
C17_HonestSetupPasses ==
    /\ e7_reply \in {"none", "Ok"}
    /\ ca.stage = "E12" => ca_out = ErrorM(Ok)
    /\ vs.stage # "Aborted" /\ ca.stage # "Aborted"

\* the run ended, with two voters of different weights whose pairs the shuffle swapped
C17_Witness ==
    /\ ca.stage = "E12" /\ e7_reply = "Ok" /\ ca_out = ErrorM(Ok)
    /\ sa.stage = "E2" /\ Len(sa.voters) = 2
    /\ sa.voters[1] # sa.voters[2]
    /\ ca.L[1][2] = sa.voters[2]

-----------------------------------------------------------------------------
(* Properties of ballots *)

\* C15: completeness.  For the election the server has built, every password and all
\* choice vectors with one boolean per choice and a sum within min..max, each answer
\* the voter builds verifies under the election fingerprint, the voter's credential
\* public key, the election public key and its question, and so does the ballot.
C15_BallotCompleteness ==
    vs.stage = "E11" =>
        \A b \in VoterBallots[vs.election] :
            /\ Len(b.answers) = Len(vs.election.questions)
            /\ \A q \in 1..Len(b.answers) :
                  Answer_verify(b.answers[q], fingerprint(vs.election), b.credential,
                                vs.election.public_key, vs.election.questions[q])
            /\ Ballot_verify(b, vs.election.public_key, vs.election.questions) = "true"

\* the server accepted a voter's ballot for two questions, one of which has min = 1,
\* under a public key other than the identity
C15_Witness ==
    /\ vs.stage = "V4" /\ out = ErrorM(Ok)
    /\ Len(vs.election.questions) = 2
    /\ vs.election.public_key # Point_identity
    /\ \E i \in 1..Len(vs.accepted_ballots) :
          vs.accepted_ballots[i][1] \in VoterBallots[vs.election]

-----------------------------------------------------------------------------
(* Properties of the Voting Server's run *)

\* the stage after each stage before V4, and the type of the message returned there
NextStage ==
    [EmptyState |-> "E3", E3 |-> "E8", E8 |-> "E9", E9 |-> "E11", E11 |-> "V4"]
ReplyType ==
    [EmptyState |-> "E3M_VS_to_CA", E3 |-> "ErrorM", E8 |-> "ErrorM", E9 |-> "E11M",
     E11 |-> "EmptyMessage"]

\* C18: every step of the Voting Server before V4 moves it to the next stage of
\* EmptyState, E3, E8, E9, E11, V4 and returns that step's message; a step in V4
\* (a ballot) leaves it in V4 unless the call unwinds; the list of accepted ballots
\* exists and changes in V4 only, where the Election is built.
C18_StageOrder ==
    [][/\ vs.stage # "V4" =>
            /\ vs'.stage = NextStage[vs.stage]
            /\ out'.type = ReplyType[vs.stage]
       /\ vs.stage = "V4" =>
            \/ vs'.stage = "V4" /\ out'.type = "ErrorM"
            \/ vs' = Aborted /\ out' = Panic
       /\ vs'.stage = "V4" =>
            /\ "election" \in DOMAIN vs'
            /\ vs.stage # "V4" => vs'.accepted_ballots = <<>> /\ vs.stage = "E11"
      ]_vars

\* the server went through all the stages and accepted a ballot under each credential
C18_Witness ==
    /\ vs.stage = "V4" /\ Len(vs.accepted_ballots) = NumPasswords
    /\ out = ErrorM(Ok)

\* C19: the L the server holds from E8 on and sends in E11M is the list of the E7M,
\* the Election it holds is the one of the E11M, and a ballot step, accepted or
\* rejected, leaves L and the Election as they were.
C19_LAndElectionImmutable ==
    /\ [](vs.stage = "E3" =>
            \A L \in LLists : VS_E3_E7M(vs, E7M(L)).state.L = L)
    /\ [][/\ (vs.stage \in {"E8", "E9", "E11", "V4"} /\ vs' # Aborted) => vs'.L = vs.L
          /\ out'.type = "E11M" /\ vs.stage = "E9" =>
                /\ out'.L = vs.L
                /\ out'.election = vs'.election
          /\ (vs.stage \in {"E11", "V4"} /\ vs' # Aborted) => vs'.election = vs.election
         ]_vars

\* a ballot was accepted and another rejected while L held two pairs
C19_Witness ==
    /\ vs.stage = "V4" /\ Len(vs.L) = 2 /\ Len(vs.accepted_ballots) = 1
    /\ out = ErrorM(Err("BallotVerificationError"))

Rejections ==
    {"CredentialNotFoundError", "CredentialUsedTwiceError", "BallotVerificationError"}

\* the reply accepts b: Ok, and b is appended with a weight of L
Accepts(s, b) ==
    LET r == Reply(s, b)
    IN  /\ r.message = ErrorM(Ok)
        /\ \E i \in 1..Len(s.L) :
              /\ s.L[i][1] = b.credential
              /\ r.state.accepted_ballots = Append(s.accepted_ballots, <<b, s.L[i][2]>>)

\* C20: in the state a rejection leaves, every ballot that satisfies all checks is
\* accepted; and a ballot that verifies, under the credential of a ballot that is
\* rejected with BallotVerificationError, is accepted after that rejection.
C20_RejectionDoesNotBlock ==
    vs.stage = "V4" =>
        LET pool == SubmittedBallots[vs.election]
            good == {b \in pool : Verifies(vs, b)}
        IN  /\ (out.type = "ErrorM" /\ out.check.kind \in Rejections) =>
                  \A b \in good :
                      (InL(vs.L, b.credential) /\ Unused(vs.accepted_ballots, b.credential))
                      => Accepts(vs, b)
            /\ \A b0 \in pool \ good :
                  LET r0 == Reply(vs, b0)
                  IN  r0.message = ErrorM(Err("BallotVerificationError")) =>
                          \A b \in good :
                              b.credential = b0.credential => Accepts(r0.state, b)

\* a ballot was rejected with BallotVerificationError after another was accepted, and
\* a verifying ballot under the rejected ballot's credential can be submitted
C20_Witness ==
    /\ vs.stage = "V4" /\ out = ErrorM(Err("BallotVerificationError"))
    /\ Len(vs.accepted_ballots) = 1
    /\ \E b0, b \in SubmittedBallots[vs.election] :
          /\ Reply(vs, b0).message = ErrorM(Err("BallotVerificationError"))
          /\ b.credential = b0.credential
          /\ Accepts(vs, b)

-----------------------------------------------------------------------------
(* The NIZKs of primitives/zkp.rs, run as prover and then verifier *)

\* the finite sets of the SetMem instances: scalars without repetition, in any order
FinSets ==
    {V \in SeqsUpTo(Scalars, MaxSetLen) \ {<<>>} :
        \A i, j \in 1..Len(V) : V[i] = V[j] => i = j}

\* a DLog proof for the instance w*G is made with the witness other_w, which is
\* w in dlog_complete and an independent scalar in dlog_sound
DLogProve ==
    /\ zk.phase = "idle"
    /\ \E w \in Scalars, other_w \in Scalars, k \in Scalars :
          LET x == Mul(w, Point_generator)
          IN  zk' = [phase |-> "proved", system |-> "DLog", x |-> x, w |-> other_w,
                     k |-> k, proof |-> DLog_NIZK_prove(x, other_w, k)]
    /\ UNCHANGED notZK

DLogVerify ==
    /\ zk.phase = "proved" /\ zk.system = "DLog"
    /\ zk' = [phase |-> "verified", system |-> "DLog", x |-> zk.x, w |-> zk.w,
              k |-> zk.k, proof |-> zk.proof,
              accepted |-> DLog_NIZK_verify(zk.x, zk.proof)]
    /\ UNCHANGED notZK

\* a SetMem proof for the ciphertext (r*G, r*h + FinSet[i]*G), made with the witness
\* (other_r, i): other_r is r in setmem_complete and a fresh scalar in setmem_sound
SetMemProve ==
    /\ zk.phase = "idle"
    /\ \E FinSet \in FinSets, h \in Points, r \in Scalars, seed \in Seeds :
          \E i \in 0..Len(FinSet), other_r \in {r, Scalar_add(r, Scalar_one)} :
              LET ctxt == Ciphertext(Mul(r, Point_generator),
                                     Point_add(Mul(r, h),
                                               Mul(FinSet[IF i < Len(FinSet) THEN i + 1 ELSE 1],
                                                   Point_generator)))
                  x == SetMemInstance(h, ctxt, FinSet)
                  w == SetMemWitness(other_r, i)
                  p == SetMem_NIZK_prove(x, w, seed)
              IN  zk' = IF p.panic
                        THEN [phase |-> "panicked", system |-> "SetMem", x |-> x, w |-> w]
                        ELSE [phase |-> "proved", system |-> "SetMem", x |-> x, w |-> w,
                              r |-> r, proof |-> p.value]
    /\ UNCHANGED notZK

SetMemVerify ==
    /\ zk.phase = "proved" /\ zk.system = "SetMem"
    /\ zk' = [phase |-> "verified", system |-> "SetMem", x |-> zk.x, w |-> zk.w,
              r |-> zk.r, proof |-> zk.proof,
              accepted |-> SetMem_NIZK_verify(zk.x, zk.proof)]
    /\ UNCHANGED notZK

ZkpNext ==
    \/ DLogProve
    \/ DLogVerify
    \/ SetMemProve
    \/ SetMemVerify

ZkpSpec == Init /\ [][ZkpNext]_vars

-----------------------------------------------------------------------------
(* Properties of the NIZKs *)

\* the prover's witness is the discrete logarithm of the instance
DLogHonest == zk.system = "DLog" /\ zk.x = Mul(zk.w, Point_generator)

\* C21: DLog completeness.  A proof made for the instance w*G with the witness w
\* is accepted by NIZK::verify, for every w and nonce k; and whatever scalar the
\* challenge is, the response to it passes DLog::result.
C21_DLogCompleteness ==
    /\ (zk.phase = "verified" /\ DLogHonest) => zk.accepted
    /\ (zk.phase = "proved" /\ DLogHonest) =>
          \A c \in Scalars :
              DLog_result(zk.x, zk.proof[1], c, DLog_response(zk.w, zk.k, c))

\* an honest proof with a nonzero witness, nonce and challenge was verified
C21_Witness ==
    /\ zk.phase = "verified" /\ DLogHonest /\ zk.accepted
    /\ zk.w # 0 /\ zk.k # 0 /\ DLog_challenge(zk.x, zk.proof[1]) # 0

C23_SetMemCompleteness ==
    (zk.phase = "verified" /\ zk.system = "SetMem" /\ zk.w.r = zk.r) =>
        /\ zk.accepted
        /\ \A i \in 1..Len(zk.x.FinSet) :
              zk.proof[1][i] = SetMem_pair(zk.x, i, zk.proof[2][i][1], zk.proof[2][i][2])
        /\ SeqSum([i \in 1..Len(zk.x.FinSet) |-> zk.proof[2][i][1]]) % Q
              = SetMem_challenge(zk.x, zk.proof[1])

\* an honest proof for the second of two values was verified
C23_Witness ==
    /\ zk.phase = "verified" /\ zk.system = "SetMem" /\ zk.w.r = zk.r
    /\ Len(zk.x.FinSet) = 2 /\ zk.w.i = 1 /\ zk.w.r # 0 /\ zk.accepted
    /\ zk.proof[2][1][1] # 0 /\ zk.proof[2][2][1] # 0

\* C24: the DLog proof is the pair (c, s) of section 4.4.1, with
\* c = H("pok" || P || k*G) and s = k - w*c, and it is accepted iff
\* H("pok" || P || s*G + c*P) = c.
C24_WireTranscript ==
    (zk.phase \in {"proved", "verified"} /\ zk.system = "DLog") =>
        LET pf == DLog_prove(zk.x, zk.w, zk.k)
        IN  /\ zk.proof = <<pf.challenge, pf.response>>
            /\ zk.phase = "verified" =>
                  zk.accepted = DLog_verify(zk.x, Proof(zk.proof[1], zk.proof[2]))

-----------------------------------------------------------------------------
(* The shared RNG: every access is rng.lock().unwrap().fill(&mut buff).unwrap() *)

\* Mutex::lock returns only while no other thread holds the guard
lock_free_always(t) == TRUE

lock_free(t) == rng.holder = 0

\* rng.lock().unwrap(): the thread takes the guard, or unwinds on a poisoned mutex
RngLock(t) ==
    /\ rng.threads[t].pc = "idle" /\ rng.threads[t].fills < MaxFills
    /\ lock_free(t)
    /\ rng' = IF rng.poisoned
              THEN [rng EXCEPT !.threads[t].pc = "panicked"]
              ELSE [rng EXCEPT !.holder = t, !.threads[t].pc = "locked"]
    /\ UNCHANGED notRNG

\* .fill(&mut buff) is entered
RngFill(t) ==
    /\ rng.threads[t].pc = "locked"
    /\ rng' = [rng EXCEPT !.threads[t].pc = "filling"]
    /\ UNCHANGED notRNG

\* fill returns and the guard is dropped at the end of the statement; on Err the
\* unwrap unwinds with the guard alive, which poisons the mutex
RngUnlock(t) ==
    /\ rng.threads[t].pc = "filling"
    /\ \E ok \in BOOLEAN :
          rng' = IF ok
                 THEN [rng EXCEPT !.holder = 0, !.threads[t].pc = "idle",
                                  !.threads[t].fills = @ + 1]
                 ELSE [rng EXCEPT !.holder = 0, !.poisoned = TRUE,
                                  !.threads[t].pc = "panicked"]
    /\ UNCHANGED notRNG

RngNext == \E t \in Threads : RngLock(t) \/ RngFill(t) \/ RngUnlock(t)

RngSpec == Init /\ [][RngNext]_vars

\* the threads inside SecureRandom::fill
Filling == {t \in Threads : rng.threads[t].pc = "filling"}

\* C25: at most one fill of the shared RNG is in progress at any time, and the
\* thread in it holds the guard of the mutex.
C25_MutualExclusion ==
    /\ Cardinality(Filling) <= 1
    /\ \A t \in Filling : rng.holder = t

\* a thread is filling after another thread has completed a fill
C25_Witness ==
    \E t \in Filling : \E u \in Threads \ {t} :
        rng.threads[u].fills > 0 /\ rng.threads[u].pc = "idle"

-----------------------------------------------------------------------------
(* Shape of the accepted ballots and of the election UUID *)

\* C26: every answer of every accepted ballot has as many choice ciphertexts as
\* its question has answers, and as many individual proofs as choices.
C26_ChoicesMatchQuestion ==
    vs.stage = "V4" =>
        \A k \in 1..Len(vs.accepted_ballots) :
            LET b == vs.accepted_ballots[k][1]
            IN  \A q \in 1..Len(b.answers) :
                    /\ Len(b.answers[q].individual_proofs) = Len(b.answers[q].choices)
                    /\ q <= Len(vs.election.questions) =>
                          Len(b.answers[q].choices)
                              = Len(vs.election.questions[q].answers)

\* C27: the election UUID the Voting Server generated has at least 14 base58
\* digits, each in 0..57.
C27_UUIDLength ==
    vs.stage # "EmptyState" =>
        LET uuid == IF vs.stage \in {"E3", "E8", "E9"} THEN vs.uuid ELSE vs.election.uuid
        IN  /\ Len(uuid) >= 14
            /\ \A d \in 1..Len(uuid) : uuid[d] \in 0..57

-----------------------------------------------------------------------------
(* The voters of the run *)

\* ctxt is an ElGamal encryption of the bit m under y
EncryptsBit(ctxt, y, m) ==
    \E r \in Scalars :
        ctxt = enc_leak_randomness(y, Scalar_from(IF m THEN 1 ELSE 0), r).ctxt

\* C28: a step in which a voter in V1 casts leaves the voter's state (password
\* and election) as it was, and the ballot of the V3Mi has the uuid and the
\* fingerprint of the stored election, the public key of (password, uuid) as
\* credential, and for each question one answer that encrypts, choice by choice,
\* the choice vector given at the question's position.
C28_VoterBallot ==
    [][cast' # cast =>
          LET s == electorate[cast'.by]
              b == cast'.reply.vote
              ch == cast'.request.choices
          IN  /\ electorate' = electorate
              /\ s.stage = "V1"
              /\ b.election_uuid = s.election.uuid
              /\ b.election_hash = fingerprint(s.election)
              /\ b.credential = ExpandedCredential_public_key(s.pass, s.election.uuid)
              /\ Len(b.answers) = Len(s.election.questions)
              /\ \A q \in 1..Len(b.answers) :
                    /\ Len(b.answers[q].choices) = Len(ch[q])
                    /\ \A c \in 1..Len(ch[q]) :
                          EncryptsBit(b.answers[q].choices[c], s.election.public_key,
                                      ch[q][c])]_vars

\* the second voter has cast, with different choices for two questions
C28_Witness ==
    /\ cast.by = 2
    /\ Len(cast.request.choices) = 2
    /\ cast.request.choices[1] # cast.request.choices[2]
    /\ cast.reply.type = "V3Mi"
    /\ electorate[2].stage = "V1"

\* the set of the elements of a sequence
Range(seq) == {seq[i] : i \in 1..Len(seq)}

\* the uuid the Voting Server generated, wherever its state holds it
VS_uuid == IF vs.stage \in {"E3", "E8", "E9"} THEN vs.uuid ELSE vs.election.uuid

\* C29: once the Credential Authority has processed E3M, for every voter index i
\* the public key of (i-th password of E4M, uuid) is in L paired with voters[i]
\* and the i-th E4Mi carries the i-th password; so the voter of index i holds a
\* password whose public key is in L with its weight, and the credential of its
\* ballot is in the Voting Server's L with that weight.
C29_CredentialsInL ==
    /\ (ca.stage = "E4" /\ ca_out.type = "E4M") =>
          /\ Len(ca_out.passwords) = Len(sa.voters)
          /\ Len(E4Mi_from(ca_out)) = Len(sa.voters)
          /\ \A i \in 1..Len(sa.voters) :
                /\ <<ExpandedCredential_public_key(ca_out.passwords[i], ca.uuid),
                     sa.voters[i]>> \in Range(ca.L)
                /\ E4Mi_from(ca_out)[i].password = ca_out.passwords[i]
    /\ electorate # <<>> =>
          /\ Len(electorate) = Len(sa.voters)
          /\ \A i \in 1..Len(electorate) :
                <<ExpandedCredential_public_key(electorate[i].pass, VS_uuid),
                  sa.voters[i]>> \in Range(ca.L)
    /\ cast.by # 0 =>
          <<cast.reply.vote.credential, sa.voters[cast.by]>> \in Range(vs.L)

\* the second of two voters with different weights and passwords has cast
C29_Witness ==
    /\ cast.by = 2 /\ Len(electorate) = 2
    /\ sa.voters[1] # sa.voters[2]
    /\ electorate[1].pass # electorate[2].pass
    /\ cast.reply.vote.credential = ca.L[1][1]

-----------------------------------------------------------------------------
(* Coverage of the shuffle *)

\* the orderings of a sequence of distinct entries
Orderings(vec) ==
    {p \in [1..Len(vec) -> Range(vec)] : Range(p) = Range(vec)}

\* C30: in step i of the shuffle of n entries the position j drawn satisfies
\* i <= j < n whatever the RNG returns, and for an input of n distinct entries
\* every one of its n! orderings is the output for some outcome of the RNG.
C30_ShuffleCoversOrderings ==
    ca.stage = "EmptyState" =>
        /\ \A n \in 1..(MaxVoters + 1) : \A i \in 0..(n - 2) :
              \A rand_val \in 0..(2 * MaxVoters + 1) :
                  LET j == rand_range(rand_val, i, n)
                  IN  ~j.panic /\ i <= j.value /\ j.value < n
        /\ \A vec \in ShuffleInputs :
              Cardinality(Range(vec)) = Len(vec) =>
                  \A p \in Orderings(vec) :
                      \E rands \in [1..(Len(vec) - 1) -> RandVals] :
                          uniformly_permute(rands, vec) = Returned(p)

\* the Credential Authority holds the two pairs, of different keys and weights,
\* in the order opposite to the one they were generated in
C30_Witness ==
    /\ ca.stage = "E4" /\ ca_out.type = "E4M" /\ Len(ca.L) = 2
    /\ ca.L[1][2] # ca.L[2][2]
    /\ ca.L[1][1] = ExpandedCredential_public_key(ca_out.passwords[2], ca.uuid)
    /\ ca.L[2][1] = ExpandedCredential_public_key(ca_out.passwords[1], ca.uuid)
    /\ ca.L[1][1] # ca.L[2][1]

-----------------------------------------------------------------------------
(* utils.rs: rand_range and the in-place uniformly_permute *)

\* rand_range(lower, upper, rng) with the usize the RNG filled
utils_rand_range(lower, upper, rand_usize) ==
    IF ~(lower <= upper) THEN Panicked
    ELSE LET range_size == upper - lower + 1
         IN  Returned(lower + (rand_usize % range_size))

\* uniformly_permute is entered with a slice of up to MaxSlice entries; the RNG
\* fills a usize in 0..MaxSlice.  For an empty slice n - 1 overflows: a build
\* with overflow checks panics there, one without runs the loop from i = 0,
\* where inp.swap(0, 0) is out of bounds.
PermuteStart ==
    /\ call.fn = "none"
    /\ \E inp \in {[k \in 1..n |-> k] : n \in 0..MaxSlice} :
          call' = [fn |-> "uniformly_permute", inp |-> inp, i |-> 0, j |-> -1,
                   status |-> IF Len(inp) = 0 THEN "panicked" ELSE "running"]
    /\ UNCHANGED notCall

\* one iteration of the loop: j = rand_range(i, n, rng); inp.swap(i, j), which
\* panics when j is no index of inp
PermuteStep ==
    /\ call.fn = "uniformly_permute" /\ call.status = "running"
    /\ LET n == Len(call.inp)
       IN  IF call.i >= n - 1
           THEN call' = [call EXCEPT !.status = "returned"]
           ELSE \E rand_usize \in 0..MaxSlice :
                  LET j == utils_rand_range(call.i, n, rand_usize)
                  IN  call' = IF j.panic THEN [call EXCEPT !.status = "panicked"]
                              ELSE IF j.value >= n
                              THEN [call EXCEPT !.j = j.value, !.status = "panicked"]
                              ELSE [call EXCEPT !.inp = swap(call.inp, call.i, j.value),
                                                !.j = j.value, !.i = call.i + 1]
    /\ UNCHANGED notCall

-----------------------------------------------------------------------------
(* base58.rs: Credential::checksum.  A u128 is a little-endian sequence of  *)
(* 16-bit limbs, and its arithmetic wraps at 2^128.                         *)

LimbBase == 2 ^ 16
U128Limbs == 128 \div 16
CREDENTIAL_LEN == 15

\* v as u128, for v below LimbBase
U128(v) == [l \in 1..U128Limbs |-> IF l = 1 THEN v ELSE 0]

RECURSIVE u128_add(_, _, _, _)
\* a + b from limb l on, with carry c
u128_add(a, b, l, c) ==
    IF l > U128Limbs THEN <<>>
    ELSE LET t == a[l] + b[l] + c
         IN  <<t % LimbBase>> \o u128_add(a, b, l + 1, t \div LimbBase)

RECURSIVE u128_mul(_, _, _, _)
\* a * m for m below LimbBase, from limb l on, with carry c
u128_mul(a, m, l, c) ==
    IF l > U128Limbs THEN <<>>
    ELSE LET t == a[l] * m + c
         IN  <<t % LimbBase>> \o u128_mul(a, m, l + 1, t \div LimbBase)

RECURSIVE u128_wrapping_sub(_, _, _, _)
\* u128::wrapping_sub(a, b) from limb l on, with borrow c
u128_wrapping_sub(a, b, l, c) ==
    IF l > U128Limbs THEN <<>>
    ELSE LET t == a[l] - b[l] - c
         IN  IF t < 0 THEN <<t + LimbBase>> \o u128_wrapping_sub(a, b, l + 1, 1)
             ELSE <<t>> \o u128_wrapping_sub(a, b, l + 1, 0)

RECURSIVE u128_rem(_, _, _, _)
\* a % m for m below LimbBase: the limbs from l down, r the remainder so far
u128_rem(a, m, l, r) ==
    IF l = 0 THEN r ELSE u128_rem(a, m, l - 1, (r * LimbBase + a[l]) % m)

RECURSIVE checksum_loop(_, _, _, _)
\* for i in (0..(CREDENTIAL_LEN - 1)).rev(): sum += nums[i] * base; base *= 58
checksum_loop(nums, i, sum, base) ==
    IF i < 0 THEN sum
    ELSE checksum_loop(nums, i - 1,
                       u128_add(sum, u128_mul(base, nums[i + 1], 1, 0), 1, 0),
                       u128_mul(base, 58, 1, 0))

\* Credential::checksum: (u128::wrapping_sub(53, sum) % 53) as u8
Credential_checksum(nums) ==
    LET sum == checksum_loop(nums, CREDENTIAL_LEN - 2, U128(0), U128(1))
    IN  u128_rem(u128_wrapping_sub(U128(53), sum, 1, 0), 53, U128Limbs, 0)

\* the digits checksum is called with: 12 equal high digits and two low digits
ChecksumInputs ==
    {[i \in 1..(CREDENTIAL_LEN - 1) |->
          IF i <= CREDENTIAL_LEN - 3 THEN hi
          ELSE IF i = CREDENTIAL_LEN - 2 THEN d1 ELSE d0] :
        hi \in {0, 57}, d1 \in {0, 1, 57}, d0 \in 0..57}

ChecksumCall ==
    /\ call.fn = "none"
    /\ \E nums \in ChecksumInputs :
          call' = [fn |-> "checksum", nums |-> nums, result |-> Credential_checksum(nums)]
    /\ UNCHANGED notCall

LibNext ==
    \/ PermuteStart
    \/ PermuteStep
    \/ ChecksumCall

LibSpec == Init /\ [][LibNext]_vars

-----------------------------------------------------------------------------
(* Properties of utils.rs and base58.rs *)

\* C31: every index j that rand_range(i, n, rng) gives the in-place shuffle is
\* an index of the slice, i <= j < n, so no swap is out of bounds.
C31_SwapIndexValid ==
    (call.fn = "uniformly_permute" /\ call.j # -1) =>
        /\ call.j < Len(call.inp)
        /\ call.status # "panicked"

RECURSIVE Base58Mod(_, _, _)
\* the digits of nums from position i on, read as a big-endian base-58 integer,
\* modulo m, continuing from the remainder r
Base58Mod(nums, i, r) ==
    IF i > Len(nums) THEN r ELSE Base58Mod(nums, i + 1, (r * 58 + nums[i]) % 53)

\* C40: for 14 base58 digits, checksum returns (53 - c) mod 53, c being the
\* digits read as a big-endian base-58 integer.
C40_ChecksumFormula ==
    call.fn = "checksum" =>
        call.result = (53 - Base58Mod(call.nums, 1, 0)) % 53


\* C32: for every answer of the ballot a voter casts, the aggregate ciphertext
\* of the overall proof is the componentwise sum of the answer's choice
\* ciphertexts, and with R the sum of the randomness the encryptions leaked it is
\* the ElGamal encryption of the number of selected choices: alpha_sum = R*g and
\* beta_sum = R*y + (sum of m)*g; when that number is within min..max, the
\* element of {min..max} at the witness index idx - min is that number.
C32_AggregateEncryptsSum ==
    cast.by # 0 =>
        LET e == electorate[cast.by].election
            y == e.public_key
        IN  \A q \in 1..Len(e.questions) :
                LET ms == cast.request.choices[q]
                    question == e.questions[q]
                    seed == cast.seed + q
                    encs == Answer_encs(ms, y, seed)
                    agg == Answer_aggregate(ms, encs, question)
                    sum == SeqSum([c \in 1..Len(ms) |-> IF ms[c] THEN 1 ELSE 0])
                    set == IntervalSet(question.min, question.max)
                    sent == cast.reply.vote.answers[q].choices
                    sent_sum ==
                        Ciphertext(SeqSum([c \in 1..Len(sent) |-> sent[c].alpha]) % Q,
                                   SeqSum([c \in 1..Len(sent) |-> sent[c].beta]) % Q)
                IN  /\ cast.reply.vote.answers[q].choices =
                          [c \in 1..Len(ms) |-> encs[c].ctxt]
                    /\ agg.ctxt = sent_sum
                    /\ agg.R = SeqSum([c \in 1..Len(ms) |->
                                         sample_uniform(seed, c)]) % Q
                    /\ agg.ctxt.alpha = Mul(agg.R, Point_generator)
                    /\ agg.ctxt.beta =
                          Point_add(Mul(y, agg.R),
                                    Mul(Scalar_from(sum), Point_generator))
                    /\ (question.min <= sum /\ sum <= question.max) =>
                          /\ agg.i + 1 \in 1..Len(set)
                          /\ set[agg.i + 1] = Scalar_from(sum)

\* a voter has cast for two questions, selecting no choice for the first (whose
\* min is 0) and one for the second, under a key that is not the identity
C32_Witness ==
    /\ cast.by # 0
    /\ Len(cast.request.choices) = 2
    /\ cast.request.choices[1] = <<FALSE, FALSE>>
    /\ TRUE \in Range(cast.request.choices[2])
    /\ electorate[cast.by].election.public_key # Point_identity
    /\ electorate[cast.by].election.questions[1].min = 0
    /\ cast.seed = 2


\* C33: in every state the Credential Authority reaches after processing E3M it
\* stores the uuid and L (E4), then the Election and L (E12), where L is a list
\* of (public key, weight) pairs, and nothing else: no password is stored; a
\* message of the Credential Authority carries passwords only if it is E4M.
C33_NoPasswordStored ==
    /\ ca.stage = "E4" => DOMAIN ca = {"stage", "uuid", "L"}
    /\ ca.stage = "E12" => DOMAIN ca = {"stage", "election", "L"}
    /\ ca.stage \in {"E4", "E12"} =>
          \A i \in 1..Len(ca.L) : DOMAIN ca.L[i] = 1..2
    /\ "passwords" \in DOMAIN ca_out => ca_out.type = "E4M"

\* the Credential Authority generated two passwords, sent them and went on to
\* E12 with the two entries of L
C33_Witness ==
    /\ ca.stage = "E12"
    /\ Len(ca.L) = 2
    /\ "election" \in DOMAIN ca
    /\ ca_out.type = "ErrorM"


\* C34: every ballot the Voting Server has accepted carries the fingerprint and
\* the uuid of the Election the server holds.
C34_AcceptedBoundToElection ==
    vs.stage = "V4" =>
        \A k \in 1..Len(vs.accepted_ballots) :
            /\ vs.accepted_ballots[k][1].election_hash = fingerprint(vs.election)
            /\ vs.accepted_ballots[k][1].election_uuid = vs.election.uuid


\* C37: in V4 the reasons to reject a ballot are reported in the order
\* CredentialNotFoundError, CredentialUsedTwiceError, BallotVerificationError: a
\* ballot with failing proofs under a used credential gets
\* CredentialUsedTwiceError, BallotVerificationError is returned only for a
\* credential that is in L and unused, and CredentialUsedTwiceError only for a
\* credential in L.
C37_RejectionPrecedence ==
    vs.stage = "V4" =>
        \A b \in SubmittedBallots[vs.election] :
            LET reply == Reply(vs, b).message
                found == InL(vs.L, b.credential)
                used == ~Unused(vs.accepted_ballots, b.credential)
            IN  /\ (found /\ used /\ ~Verifies(vs, b))
                      => reply = ErrorM(Err("CredentialUsedTwiceError"))
                /\ (~found /\ ~Verifies(vs, b))
                      => reply = ErrorM(Err("CredentialNotFoundError"))
                /\ reply = ErrorM(Err("BallotVerificationError")) => (found /\ ~used)
                /\ reply = ErrorM(Err("CredentialUsedTwiceError")) => found

\* the server rejected a reused credential while it could be sent a ballot with
\* failing proofs under a used credential and one under an unknown one
C37_Witness ==
    /\ vs.stage = "V4" /\ out = ErrorM(Err("CredentialUsedTwiceError"))
    /\ \E b1, b2 \in SubmittedBallots[vs.election] :
          /\ InL(vs.L, b1.credential) /\ ~Unused(vs.accepted_ballots, b1.credential)
          /\ ~Verifies(vs, b1)
          /\ ~InL(vs.L, b2.credential) /\ ~Verifies(vs, b2)


\* C38: the Voting Server in E8 given an E9M with an empty list of trustee keys
\* returns Ok and goes to E9 with the group identity as trustee_pk, and the
\* Election it then builds on E10M has the identity point as public_key.
C38_NoTrustees ==
    vs.stage = "E8" =>
        LET r == VS_E8_E9M(vs, E9M(<<>>))
        IN  /\ r.message = ErrorM(Ok)
            /\ r.state = [stage |-> "E9", uuid |-> vs.uuid, L |-> vs.L,
                          trustee_pk |-> Point_identity]
            /\ \A qs \in QuestionLists :
                  LET e == VS_E9_E10M(r.state, E10M(qs))
                  IN  /\ e.state.election.public_key = Point_identity
                      /\ e.message.election.public_key = Point_identity

\* the server holds an Election of two questions built on the state that E9M
\* with no trustee key leaves, for a list L of two entries
C38_Witness ==
    /\ vs.stage = "E11"
    /\ Len(vs.L) = 2
    /\ Len(vs.election.questions) = 2
    /\ \E qs \in QuestionLists :
          vs = VS_E9_E10M(VS_E8_E9M([stage |-> "E8", uuid |-> vs.election.uuid,
                                     L |-> vs.L], E9M(<<>>)).state,
                          E10M(qs)).state


\* C39: the Credential Authority in EmptyState given an E3M with an empty voter
\* list reaches E4 with the uuid of the message and an empty L, and returns an
\* E4M with an empty password list.
C39_EmptyVoterList ==
    ca.stage = "EmptyState" =>
        \A u \in UUIDRands :
            CA_EmptyState_E3M(ca, E3M(UUID_gen(u), <<>>), <<>>, <<>>)
                = Return([stage |-> "E4", uuid |-> UUID_gen(u), L |-> <<>>], E4M(<<>>))


RECURSIVE RunBallots(_, _, _)
\* the state of the Voting Server after the ballots of seq, from position i on,
\* have reached it one after the other; a server that unwound processes no more
RunBallots(s, seq, i) ==
    IF i > Len(seq) \/ s.stage = "Aborted" THEN s
    ELSE RunBallots(VS_V4_V3Mi(s, V3Mi(seq[i])).state, seq, i + 1)

\* C36: whatever the order in which submitted ballots reach a Voting Server
\* that has accepted none yet, the credentials of accepted_ballots afterwards are
\* exactly the credentials of L under which some submitted ballot verifies, and
\* the ballot accepted for a credential is the first verifying one to arrive.
C36_OrderIndependent ==
    (vs.stage = "V4" /\ vs.accepted_ballots = <<>>) =>
        \A seq \in SeqsUpTo(SubmittedBallots[vs.election], MaxArrivals) :
            LET final == RunBallots(vs, seq, 1)
                good == {i \in 1..Len(seq) :
                            InL(vs.L, seq[i].credential) /\ Verifies(vs, seq[i])}
                first == {i \in good :
                             \A j \in good :
                                 seq[j].credential = seq[i].credential => i <= j}
            IN  /\ final.stage = "V4"
                /\ {final.accepted_ballots[k][1] : k \in 1..Len(final.accepted_ballots)}
                       = {seq[i] : i \in first}
                /\ Len(final.accepted_ballots) = Cardinality(first)

====
